---- MODULE Spec2Model ----
(***************************************************************************)
(* The STORE-only ZIP codec of src/unnamed/part_045: the two ZipBuilder    *)
(* classes (addFile/build, lines 136-193, and file/generateAsync, lines    *)
(* 280-382), their CRC-32 and DOS date-time helpers, and the reader        *)
(* parseStoredZip (lines 386-439).                                         *)
(*                                                                         *)
(* Representation.  A byte is a number in 0..255 and a buffer a sequence   *)
(* of bytes.  A JavaScript string is a sequence of UTF-16 code units.  A   *)
(* uint32 is a pair <<hi, lo>> of 16-bit halves (hi * 65536 + lo), so that *)
(* values up to 0xFFFFFFFF stay inside TLC's 32-bit integers.              *)
(***************************************************************************)
EXTENDS Integers, Sequences, FiniteSets, TLC

\* ------------------------------------------------------------------------
\* Bounds of the model.
MaxEntries == 2
MaxWrites == 1
MaxCrcLen == 3
MaxShaLen == 64
MaxChunks == 3
MaxClock == 6000
MaxQueued == 2

\* How many ids the callers of the inline transport and its randomId() draw
\* from.
MaxMessages == 2

\* ------------------------------------------------------------------------
\* Bit operations on non-negative integers (JavaScript ^, | and &).
RECURSIVE BitXor(_, _)
BitXor(a, b) ==
    IF a = 0 THEN b
    ELSE IF b = 0 THEN a
    ELSE ((a + b) % 2) + 2 * BitXor(a \div 2, b \div 2)

RECURSIVE BitOr(_, _)
BitOr(a, b) ==
    IF a = 0 THEN b
    ELSE IF b = 0 THEN a
    ELSE (IF a % 2 = 1 \/ b % 2 = 1 THEN 1 ELSE 0) + 2 * BitOr(a \div 2, b \div 2)

\* uint32 values as <<hi, lo>>.
U32(n) == << (n \div 65536) % 65536, n % 65536 >>
XorU32(a, b) == << BitXor(a[1], b[1]), BitXor(a[2], b[2]) >>
Shr1(w) == << w[1] \div 2, (w[2] \div 2) + ((w[1] % 2) * 32768) >>
Shr8(w) == << w[1] \div 256, (w[2] \div 256) + ((w[1] % 256) * 256) >>

\* setUint16 keeping the largest value of the field for a larger one.
SetUint16_Saturating(n) ==
    IF n > 65535 THEN <<255, 255>> ELSE << n % 256, (n \div 256) % 256 >>

\* DataView.setUint16 / setUint32 with littleEndian = true: the value is
\* reduced modulo 2^16 / 2^32 and written low byte first.
SetUint16(n) == << n % 256, (n \div 256) % 256 >>
SetUint32W(w) == << w[2] % 256, w[2] \div 256, w[1] % 256, w[1] \div 256 >>
SetUint32(n) == SetUint32W(U32(n))

\* ------------------------------------------------------------------------
\* TextEncoder.encode: UTF-8 of a string; a lone surrogate is encoded as
\* U+FFFD (EF BF BD).
IsHigh(c) == c \in 55296..56319
IsLow(c) == c \in 56320..57343

RECURSIVE Utf8Encode(_)
Utf8Encode(s) ==
    IF s = <<>> THEN <<>>
    ELSE LET c == Head(s) IN
         IF c < 128 THEN <<c>> \o Utf8Encode(Tail(s))
         ELSE IF c < 2048
              THEN <<192 + (c \div 64), 128 + (c % 64)>> \o Utf8Encode(Tail(s))
         ELSE IF IsHigh(c) /\ Len(s) >= 2 /\ IsLow(s[2])
              THEN LET cp == 65536 + (c - 55296) * 1024 + (s[2] - 56320) IN
                   << 240 + (cp \div 262144), 128 + ((cp \div 4096) % 64),
                      128 + ((cp \div 64) % 64), 128 + (cp % 64) >>
                   \o Utf8Encode(Tail(Tail(s)))
         ELSE IF IsHigh(c) \/ IsLow(c)
              THEN <<239, 191, 189>> \o Utf8Encode(Tail(s))
         ELSE << 224 + (c \div 4096), 128 + ((c \div 64) % 64), 128 + (c % 64) >>
              \o Utf8Encode(Tail(s))

\* TextDecoder.decode (utf-8, fatal = false, ignoreBOM = false): a malformed
\* sequence decodes to one U+FFFD per maximal subpart, and a leading byte
\* order mark is dropped.
RECURSIVE DecodeFrom(_, _)
DecodeFrom(b, i) ==
    IF i > Len(b) THEN <<>>
    ELSE LET b0 == b[i]
             need == IF b0 < 128 THEN 0
                     ELSE IF b0 \in 194..223 THEN 1
                     ELSE IF b0 \in 224..239 THEN 2
                     ELSE IF b0 \in 240..244 THEN 3
                     ELSE 4
             lo == IF b0 = 224 THEN 160 ELSE IF b0 = 240 THEN 144 ELSE 128
             hi == IF b0 = 237 THEN 159 ELSE IF b0 = 244 THEN 143 ELSE 191
             ok2 == i + 1 <= Len(b) /\ b[i + 1] \in lo..hi
             ok3 == ok2 /\ i + 2 <= Len(b) /\ b[i + 2] \in 128..191
             ok4 == ok3 /\ i + 3 <= Len(b) /\ b[i + 3] \in 128..191
             bad == <<65533>>
         IN CASE need = 0 -> <<b0>> \o DecodeFrom(b, i + 1)
              [] need = 1 ->
                   IF ok2 THEN <<(b0 - 192) * 64 + (b[i + 1] - 128)>>
                               \o DecodeFrom(b, i + 2)
                   ELSE bad \o DecodeFrom(b, i + 1)
              [] need = 2 ->
                   IF ok3 THEN <<(b0 - 224) * 4096 + (b[i + 1] - 128) * 64
                                 + (b[i + 2] - 128)>> \o DecodeFrom(b, i + 3)
                   ELSE IF ok2 THEN bad \o DecodeFrom(b, i + 2)
                   ELSE bad \o DecodeFrom(b, i + 1)
              [] need = 3 ->
                   IF ok4 THEN LET cp == (b0 - 240) * 262144
                                         + (b[i + 1] - 128) * 4096
                                         + (b[i + 2] - 128) * 64
                                         + (b[i + 3] - 128)
                               IN << 55296 + ((cp - 65536) \div 1024),
                                     56320 + ((cp - 65536) % 1024) >>
                                  \o DecodeFrom(b, i + 4)
                   ELSE IF ok3 THEN bad \o DecodeFrom(b, i + 3)
                   ELSE IF ok2 THEN bad \o DecodeFrom(b, i + 2)
                   ELSE bad \o DecodeFrom(b, i + 1)
              [] OTHER -> bad \o DecodeFrom(b, i + 1)

Utf8Decode(b) ==
    IF Len(b) >= 3 /\ b[1] = 239 /\ b[2] = 187 /\ b[3] = 191
    THEN DecodeFrom(b, 4)
    ELSE DecodeFrom(b, 1)

\* ------------------------------------------------------------------------
\* CRC-32.  Both halves of the file build the same 256-entry table.
RECURSIVE TableRounds(_, _)
TableRounds(value, bit) ==
    IF bit = 0 THEN value
    ELSE TableRounds(IF value[2] % 2 # 0
                     THEN XorU32(<<60856, 33568>>, Shr1(value))
                     ELSE Shr1(value),
                     bit - 1)

createCrcTable == [i \in 0..255 |-> TableRounds(U32(i), 8)]

crcTable == createCrcTable

\* The CRC loop with the data byte left out of the table index.
RECURSIVE CrcLoop_IgnoresData(_, _, _)
CrcLoop_IgnoresData(crc, data, i) ==
    IF i > Len(data) THEN crc
    ELSE LET index == crc[2] % 256
         IN CrcLoop_IgnoresData(XorU32(Shr8(crc), crcTable[index]), data, i + 1)

\* The CRC loop with the top bit of each data byte left out of the index.
RECURSIVE CrcLoop_DropsHighBit(_, _, _)
CrcLoop_DropsHighBit(crc, data, i) ==
    IF i > Len(data) THEN crc
    ELSE LET index == BitXor(crc[2] % 256, data[i] % 128)
         IN CrcLoop_DropsHighBit(XorU32(Shr8(crc), crcTable[index]), data, i + 1)

\* The loop of crc32 (lines 216-223).
RECURSIVE CrcLoop(_, _, _)
CrcLoop(crc, data, i) ==
    IF i > Len(data) THEN crc
    ELSE LET index == BitXor(crc[2] % 256, data[i])
         IN CrcLoop(XorU32(Shr8(crc), crcTable[index]), data, i + 1)

crc32(data) == XorU32(CrcLoop(<<65535, 65535>>, data, 1), <<65535, 65535>>)

\* The CRC-32 of the addFile/build half (lines 34-59): makeCrcTable,
\* CRC_TABLE and its own crc32.
\* makeCrcTable with the loop over j one round short.
RECURSIVE MakeRounds_Seven(_, _)
MakeRounds_Seven(crc, j) ==
    IF j = 7 THEN crc
    ELSE MakeRounds_Seven(IF crc[2] % 2 # 0
                          THEN XorU32(<<60856, 33568>>, Shr1(crc))
                          ELSE Shr1(crc),
                          j + 1)

\* The inner loop of makeCrcTable (lines 37-43).
RECURSIVE MakeRounds(_, _)
MakeRounds(crc, j) ==
    IF j = 8 THEN crc
    ELSE MakeRounds(IF crc[2] % 2 # 0
                    THEN XorU32(<<60856, 33568>>, Shr1(crc))
                    ELSE Shr1(crc),
                    j + 1)

makeCrcTable == [i \in 0..255 |-> MakeRounds(U32(i), 0)]

CRC_TABLE == makeCrcTable

RECURSIVE CrcLoopA(_, _, _)
CrcLoopA(crc, data, i) ==
    IF i > Len(data) THEN crc
    ELSE LET byte == data[i]
         IN CrcLoopA(XorU32(CRC_TABLE[BitXor(crc[2] % 256, byte)], Shr8(crc)),
                     data, i + 1)

crc32A(data) == XorU32(CrcLoopA(<<65535, 65535>>, data, 1), <<65535, 65535>>)

\* ------------------------------------------------------------------------
\* DOS date-time.  A Date is the record of its UTC getters (getUTCMonth is
\* 0-based).  Shl is JavaScript << on small non-negative numbers.
Shl(a, n) == a * (2 ^ n)
Min(a, b) == IF a < b THEN a ELSE b
Max(a, b) == IF a > b THEN a ELSE b

toDosTime(date) ==
    LET year == date.year
        safeYear == Max(1980, Min(year, 2107))
        month == date.month + 1
        day == date.day
        hours == date.hours
        minutes == date.minutes
        seconds == date.seconds \div 2
        dosTime == BitOr(BitOr(Shl(hours, 11), Shl(minutes, 5)), seconds)
        dosDate == BitOr(BitOr(Shl(safeYear - 1980, 9), Shl(month, 5)), day)
    IN [time |-> dosTime % 65536, date |-> dosDate % 65536]

\* clampYear without its upper limit.
clampYear_NoUpper(year) == IF year < 1980 THEN 1980 ELSE year

\* clampYear (lines 235-243); the year of new Date() is always finite.
clampYear(year) ==
    IF year < 1980 THEN 1980
    ELSE IF year > 2107 THEN 2107
    ELSE year

\* toDosDateTime reading the hour with getHours(), in the host's time zone.
toDosDateTime_LocalHours(date) ==
    LET year == clampYear(date.year)
        month == date.month + 1
        day == date.day
        hours == (date.hours + date.zone) % 24
        minutes == date.minutes
        seconds == date.seconds \div 2
    IN [dosDate |-> BitOr(BitOr(Shl(year - 1980, 9), Shl(month, 5)), day),
        dosTime |-> BitOr(BitOr(Shl(hours, 11), Shl(minutes, 5)), seconds)]

toDosDateTime(date) ==
    LET year == clampYear(date.year)
        month == date.month + 1
        day == date.day
        hours == date.hours
        minutes == date.minutes
        seconds == date.seconds \div 2
    IN [dosDate |-> BitOr(BitOr(Shl(year - 1980, 9), Shl(month, 5)), day),
        dosTime |-> BitOr(BitOr(Shl(hours, 11), Shl(minutes, 5)), seconds)]

\* ------------------------------------------------------------------------
\* The state.
VARIABLES
    builder,   \* which ZipBuilder class was constructed: "build" (lines
               \* 136-193, addFile/build) or "generate" (lines 280-382)
    now,       \* what new Date() reads
    entries,   \* this.entries of the builder
    heap,      \* the ArrayBuffers the entries' data views refer to:
               \* id -> [bytes, shared]; shared buffers are the caller's
    writes,    \* how many times the caller wrote into a shared buffer
    lastOp,    \* the caller's last operation
    ret,       \* what that operation returned
    input,     \* the bytes last given to parseStoredZip
    origin,    \* how the caller made them
    added,     \* the caller's record of its add calls, in order: the name
               \* it passed and the payload bytes as they were at the call
    clock,     \* what Date.now() reads, in milliseconds
    wait,      \* the CLI's wait command: where it is, its deadline, the
               \* polls it made and when, what it printed
    queued,    \* how many messages the transport's outbox holds
    folderState,   \* the inline transport's folders, in Map order: id and
                   \* unreadCount
    messageState   \* the inline transport's messages, in Map order: id,
                   \* folder and status of the envelope

cliVars == <<clock, wait, queued>>
mailVars == <<folderState, messageState>>

vars == <<builder, now, entries, heap, writes, lastOp, ret, input, origin, added,
          clock, wait, queued, folderState, messageState>>

\* The CLI has run no command, and no inline transport has been created.
NoCli == clock = 0 /\ wait = [pc |-> "idle"] /\ queued = 0
NoMail == folderState = <<>> /\ messageState = <<>>

\* The bytes a Uint8Array view shows.
ViewBytes(h, view) ==
    SubSeq(h[view.buf].bytes, view.byteOffset + 1, view.byteOffset + view.length)

\* The smallest buffer id not in use.
FreshBuf(used) == CHOOSE id \in 1..(Cardinality(used) + 1) :
                      id \notin used /\ \A j \in 1..(id - 1) : j \in used

\* ------------------------------------------------------------------------
\* Typed-array helpers: a zero-filled buffer, and TypedArray.set(chunk, at).
Zeros(n) == [k \in 1..n |-> 0]
SetAt(target, chunk, at) ==
    SubSeq(target, 1, at) \o chunk
    \o SubSeq(target, at + Len(chunk) + 1, Len(target))

\* An argument the caller passes as file contents is a string, or a
\* Uint8Array, ArrayBuffer or DataView over a buffer of the heap.
WholeView(h, id) == [buf |-> id, byteOffset |-> 0, length |-> Len(h[id].bytes)]
EncodeNew(h, text) ==
    LET id == FreshBuf(DOMAIN h)
        bytes == Utf8Encode(text)
    IN [heap |-> (id :> [bytes |-> bytes, shared |-> FALSE]) @@ h,
        view |-> [buf |-> id, byteOffset |-> 0, length |-> Len(bytes)]]

\* toUint8Array of the addFile/build class (lines 14-32).
toUint8ArrayView(h, in) ==
    IF in.kind = "string" THEN EncodeNew(h, in.text)
    ELSE IF in.kind = "Uint8Array"
         THEN [heap |-> h, view |-> [buf |-> in.buf, byteOffset |-> in.byteOffset,
                                     length |-> in.length]]
    ELSE IF in.kind = "ArrayBuffer"
         THEN [heap |-> h, view |-> WholeView(h, in.buf)]
    ELSE [heap |-> h, view |-> [buf |-> in.buf, byteOffset |-> in.byteOffset,
                                length |-> in.length]]

\* toUint8Array of the file/generateAsync class (lines 225-233).
toUint8Array(h, in) ==
    IF in.kind = "string" THEN EncodeNew(h, in.text)
    ELSE IF in.kind = "Uint8Array"
         THEN [heap |-> h, view |-> [buf |-> in.buf, byteOffset |-> in.byteOffset,
                                     length |-> in.length]]
    ELSE [heap |-> h, view |-> WholeView(h, in.buf)]

\* path.replace(/\\+/g, '/'): every maximal run of backslashes becomes one '/'.
RECURSIVE ReplaceBackslashes(_)
ReplaceBackslashes(s) ==
    IF s = <<>> THEN <<>>
    ELSE IF Head(s) = 92
         THEN IF Len(s) >= 2 /\ s[2] = 92
              THEN ReplaceBackslashes(Tail(s))
              ELSE <<47>> \o ReplaceBackslashes(Tail(s))
    ELSE <<Head(s)>> \o ReplaceBackslashes(Tail(s))

\* NormalizeName removing every leading '/' instead of one.
RECURSIVE StripAllSlashes(_)
StripAllSlashes(s) ==
    IF s # <<>> /\ Head(s) = 47 THEN StripAllSlashes(Tail(s)) ELSE s
NormalizeName_StripsAll(path) == StripAllSlashes(ReplaceBackslashes(path))

NormalizeName(path) ==
    LET normalizedPath == ReplaceBackslashes(path)
    IN IF Len(normalizedPath) >= 1 /\ normalizedPath[1] = 47
       THEN Tail(normalizedPath)
       ELSE normalizedPath

\* ZipBuilder.addFile (lines 139-148): the entries and heap after the call.
addFile(es, h, path, contents, date) ==
    LET name == NormalizeName(path)
        d == toUint8ArrayView(h, contents)
        crc == crc32A(ViewBytes(d.heap, d.view))
        t == toDosTime(date)
    IN [entries |-> Append(es, [name |-> name, data |-> d.view, crc32 |-> crc,
                                modTime |-> t.time, modDate |-> t.date,
                                offset |-> 0]),
        heap |-> d.heap]

\* file replacing an entry of the same name instead of appending.
file_Dedup(es, h, name, content, date) ==
    LET d == toUint8Array(h, content)
        t == toDosDateTime(date)
        entry == [name |-> name, data |-> d.view,
                  crc |-> crc32(ViewBytes(d.heap, d.view)),
                  size |-> d.view.length, offset |-> 0,
                  dosDate |-> t.dosDate, dosTime |-> t.dosTime]
    IN [entries |-> IF \E i \in 1..Len(es) : es[i].name = name
                    THEN [i \in 1..Len(es) |->
                             IF es[i].name = name THEN entry ELSE es[i]]
                    ELSE Append(es, entry),
        heap |-> d.heap]

\* ZipBuilder.file (lines 283-296).
file(es, h, name, content, date) ==
    LET d == toUint8Array(h, content)
        t == toDosDateTime(date)
    IN [entries |-> Append(es, [name |-> name, data |-> d.view,
                                crc |-> crc32(ViewBytes(d.heap, d.view)),
                                size |-> d.view.length, offset |-> 0,
                                dosDate |-> t.dosDate, dosTime |-> t.dosTime]),
        heap |-> d.heap]

\* ------------------------------------------------------------------------
\* The three signatures, as uint32 pairs: 0x04034b50, 0x02014b50, 0x06054b50.
ZIP_LOCAL_FILE_HEADER_SIGNATURE == <<1027, 19280>>
ZIP_CENTRAL_DIR_SIGNATURE == <<513, 19280>>
ZIP_END_CENTRAL_DIR_SIGNATURE == <<1541, 19280>>

\* The addFile/build class (lines 76-134, 154-192).
writeLocalFileHeader(entry, nameBytes) ==
    SetAt(SetAt(Zeros(30 + Len(nameBytes)),
                SetUint32W(ZIP_LOCAL_FILE_HEADER_SIGNATURE) \o SetUint16(20)
                \o SetUint16(0) \o SetUint16(0)
                \o SetUint16(entry.modTime) \o SetUint16(entry.modDate)
                \o SetUint32W(entry.crc32)
                \o SetUint32(entry.data.length) \o SetUint32(entry.data.length)
                \o SetUint16(Len(nameBytes)) \o SetUint16(0), 0),
          nameBytes, 30)

writeCentralDirectoryHeader(entry, nameBytes) ==
    SetAt(SetAt(Zeros(46 + Len(nameBytes)),
                SetUint32W(ZIP_CENTRAL_DIR_SIGNATURE) \o SetUint16(788)
                \o SetUint16(20) \o SetUint16(0) \o SetUint16(0)
                \o SetUint16(entry.modTime) \o SetUint16(entry.modDate)
                \o SetUint32W(entry.crc32)
                \o SetUint32(entry.data.length) \o SetUint32(entry.data.length)
                \o SetUint16(Len(nameBytes)) \o SetUint16(0) \o SetUint16(0)
                \o SetUint16(0) \o SetUint16(0) \o SetUint32(0)
                \o SetUint32(entry.offset), 0),
          nameBytes, 46)

\* The end record with the directory's size and offset in each other's place.
writeEndOfCentralDirectory_Swapped(entryCount, centralSize, centralOffset) ==
    SetAt(Zeros(22),
          SetUint32W(ZIP_END_CENTRAL_DIR_SIGNATURE) \o SetUint16(0) \o SetUint16(0)
          \o SetUint16(entryCount) \o SetUint16(entryCount)
          \o SetUint32(centralOffset) \o SetUint32(centralSize) \o SetUint16(0), 0)

writeEndOfCentralDirectory(entryCount, centralSize, centralOffset) ==
    SetAt(Zeros(22),
          SetUint32W(ZIP_END_CENTRAL_DIR_SIGNATURE) \o SetUint16(0) \o SetUint16(0)
          \o SetUint16(entryCount) \o SetUint16(entryCount)
          \o SetUint32(centralSize) \o SetUint32(centralOffset) \o SetUint16(0), 0)

\* The first loop of build (lines 158-164): it stores each entry's offset.
RECURSIVE BuildLocalLoop(_, _, _, _, _)
BuildLocalLoop(es, h, i, localSize, localChunks) ==
    IF i > Len(es)
    THEN [entries |-> es, localSize |-> localSize, localChunks |-> localChunks]
    ELSE LET nameBytes == Utf8Encode(es[i].name)
             header == writeLocalFileHeader(es[i], nameBytes)
             entry == [es[i] EXCEPT !.offset = localSize]
             data == ViewBytes(h, entry.data)
         IN BuildLocalLoop([es EXCEPT ![i] = entry], h, i + 1,
                           localSize + Len(header) + Len(data),
                           localChunks \o <<header, data>>)

\* The second loop of build (lines 169-174).
RECURSIVE BuildCentralLoop(_, _, _, _)
BuildCentralLoop(es, i, centralSize, centralChunks) ==
    IF i > Len(es)
    THEN [centralSize |-> centralSize, centralChunks |-> centralChunks]
    ELSE LET nameBytes == Utf8Encode(es[i].name)
             header == writeCentralDirectoryHeader(es[i], nameBytes)
         IN BuildCentralLoop(es, i + 1, centralSize + Len(header),
                             Append(centralChunks, header))

\* The copy loops of build (lines 180-188): the output and the next offset.
RECURSIVE CopyChunks(_, _, _, _)
CopyChunks(output, chunks, i, offset) ==
    IF i > Len(chunks) THEN [output |-> output, offset |-> offset]
    ELSE CopyChunks(SetAt(output, chunks[i], offset), chunks, i + 1,
                    offset + Len(chunks[i]))

\* build with the central directory laid out before the local pass has
\* stored the offsets.
build_CentralFirst(es, h) ==
    LET c == BuildCentralLoop(es, 1, 0, <<>>)
        l == BuildLocalLoop(es, h, 1, 0, <<>>)
        footer == writeEndOfCentralDirectory(Len(l.entries), c.centralSize,
                                             l.localSize)
        totalSize == l.localSize + c.centralSize + Len(footer)
        o1 == CopyChunks(Zeros(totalSize), l.localChunks, 1, 0)
        o2 == CopyChunks(o1.output, c.centralChunks, 1, o1.offset)
    IN [entries |-> l.entries, output |-> SetAt(o2.output, footer, o2.offset)]

\* ZipBuilder.build (lines 154-192): the entries after the call and the
\* bytes of the buffer it returns.
build(es, h) ==
    LET l == BuildLocalLoop(es, h, 1, 0, <<>>)
        c == BuildCentralLoop(l.entries, 1, 0, <<>>)
        footer == writeEndOfCentralDirectory(Len(l.entries), c.centralSize,
                                             l.localSize)
        totalSize == l.localSize + c.centralSize + Len(footer)
        o1 == CopyChunks(Zeros(totalSize), l.localChunks, 1, 0)
        o2 == CopyChunks(o1.output, c.centralChunks, 1, o1.offset)
    IN [entries |-> l.entries, output |-> SetAt(o2.output, footer, o2.offset)]

\* ------------------------------------------------------------------------
\* The file/generateAsync class (lines 269-381).
RECURSIVE SumLen(_, _)
SumLen(segments, i) ==
    IF i > Len(segments) THEN 0 ELSE Len(segments[i]) + SumLen(segments, i + 1)

concatBuffers(segments) ==
    CopyChunks(Zeros(SumLen(segments, 1)), segments, 1, 0).output

\* The local header announcing one byte of extra field it does not write.
LocalSegmentHeader_ExtraField(entry, nameBytes) ==
    SetAt(SetAt(Zeros(30 + Len(nameBytes)),
                SetUint32W(ZIP_LOCAL_FILE_HEADER_SIGNATURE)
                \o SetUint16(20) \o SetUint16(0) \o SetUint16(0)
                \o SetUint16(entry.dosTime) \o SetUint16(entry.dosDate)
                \o SetUint32W(entry.crc)
                \o SetUint32(entry.size) \o SetUint32(entry.size)
                \o SetUint16(Len(nameBytes)) \o SetUint16(1), 0),
          nameBytes, 30)

\* The header buildLocalSegments writes for an entry (lines 304-317).
LocalSegmentHeader(entry, nameBytes) ==
    SetAt(SetAt(Zeros(30 + Len(nameBytes)),
                SetUint32W(ZIP_LOCAL_FILE_HEADER_SIGNATURE)
                \o SetUint16(20) \o SetUint16(0) \o SetUint16(0)
                \o SetUint16(entry.dosTime) \o SetUint16(entry.dosDate)
                \o SetUint32W(entry.crc)
                \o SetUint32(entry.size) \o SetUint32(entry.size)
                \o SetUint16(Len(nameBytes)) \o SetUint16(0), 0),
          nameBytes, 30)

\* The header buildCentralDirectory writes for an entry (lines 328-347).
CentralDirectoryHeader(entry, nameBytes) ==
    SetAt(SetAt(Zeros(46 + Len(nameBytes)),
                SetUint32W(ZIP_CENTRAL_DIR_SIGNATURE)
                \o SetUint16(20) \o SetUint16(20)
                \o SetUint16(0) \o SetUint16(0)
                \o SetUint16(entry.dosTime) \o SetUint16(entry.dosDate)
                \o SetUint32W(entry.crc)
                \o SetUint32(entry.size) \o SetUint32(entry.size)
                \o SetUint16(Len(nameBytes)) \o SetUint16(0)
                \o SetUint16(0) \o SetUint16(0) \o SetUint16(0)
                \o SetUint32(0) \o SetUint32(entry.offset), 0),
          nameBytes, 46)

\* buildLocalSegments (lines 298-322): the entries with their offsets stored,
\* and the parts.
RECURSIVE buildLocalSegments(_, _, _, _, _)
buildLocalSegments(es, h, i, offset, parts) ==
    IF i > Len(es) THEN [entries |-> es, parts |-> parts]
    ELSE LET entry == [es[i] EXCEPT !.offset = offset]
             nameBytes == Utf8Encode(entry.name)
             header == LocalSegmentHeader(entry, nameBytes)
             data == ViewBytes(h, entry.data)
         IN buildLocalSegments([es EXCEPT ![i] = entry], h, i + 1,
                               offset + Len(header) + Len(data),
                               parts \o <<header, data>>)

\* buildCentralDirectory (lines 324-351).
RECURSIVE buildCentralDirectory(_, _, _)
buildCentralDirectory(es, i, parts) ==
    IF i > Len(es) THEN parts
    ELSE LET entry == es[i]
             nameBytes == Utf8Encode(entry.name)
             header == CentralDirectoryHeader(entry, nameBytes)
         IN buildCentralDirectory(es, i + 1, Append(parts, header))

\* The end record with the entry count written once, not twice.
buildEndRecord_OneCount(es, centralDirectorySize, centralDirectoryOffset) ==
    SetAt(Zeros(22),
          SetUint32W(ZIP_END_CENTRAL_DIR_SIGNATURE) \o SetUint16(0) \o SetUint16(0)
          \o SetUint16(Len(es)) \o SetUint16(0)
          \o SetUint32(centralDirectorySize) \o SetUint32(centralDirectoryOffset)
          \o SetUint16(0), 0)

\* buildEndRecord (lines 353-365).
buildEndRecord(es, centralDirectorySize, centralDirectoryOffset) ==
    SetAt(Zeros(22),
          SetUint32W(ZIP_END_CENTRAL_DIR_SIGNATURE) \o SetUint16(0) \o SetUint16(0)
          \o SetUint16(Len(es)) \o SetUint16(Len(es))
          \o SetUint32(centralDirectorySize) \o SetUint32(centralDirectoryOffset)
          \o SetUint16(0), 0)

\* generate with the end record left out of the final concatenation.
generate_NoEndRecord(es, h) ==
    LET l == buildLocalSegments(es, h, 1, 0, <<>>)
        localSegment == concatBuffers(l.parts)
        centralSegment == concatBuffers(buildCentralDirectory(l.entries, 1, <<>>))
        archive == concatBuffers(<<localSegment, centralSegment>>)
    IN [entries |-> l.entries, output |-> SubSeq(archive, 1, Len(archive))]

\* generate with the central directory built before the local segments have
\* stored the offsets.
generate_CentralFirst(es, h) ==
    LET centralSegment == concatBuffers(buildCentralDirectory(es, 1, <<>>))
        l == buildLocalSegments(es, h, 1, 0, <<>>)
        localSegment == concatBuffers(l.parts)
        endRecord == buildEndRecord(l.entries, Len(centralSegment), Len(localSegment))
        archive == concatBuffers(<<localSegment, centralSegment, endRecord>>)
    IN [entries |-> l.entries, output |-> SubSeq(archive, 1, Len(archive))]

\* generate (lines 367-373): the entries after the call and the bytes of the
\* ArrayBuffer it returns (a slice, that is a copy, of the archive).
generate(es, h) ==
    LET l == buildLocalSegments(es, h, 1, 0, <<>>)
        localSegment == concatBuffers(l.parts)
        centralSegment == concatBuffers(buildCentralDirectory(l.entries, 1, <<>>))
        endRecord == buildEndRecord(l.entries, Len(centralSegment), Len(localSegment))
        archive == concatBuffers(<<localSegment, centralSegment, endRecord>>)
    IN [entries |-> l.entries, output |-> SubSeq(archive, 1, Len(archive))]

\* ------------------------------------------------------------------------
\* The reader (lines 386-439).  DataView.getUint16 / getUint32, little
\* endian, at a 0-based offset; the caller checks the range.
GetUint16(bytes, at) == bytes[at + 1] + 256 * bytes[at + 2]
GetUint32(bytes, at) == << GetUint16(bytes, at + 2), GetUint16(bytes, at) >>

\* Slice with its end one byte short.
Slice_EndShort(bytes, start, end) == SubSeq(bytes, start + 1, end - 1)

\* Uint8Array.slice(start, end), 0-based and end-exclusive.
Slice(bytes, start, end) == SubSeq(bytes, start + 1, end)

Failure(error, name) == [kind |-> "error", error |-> error, name |-> name]

\* A map that keeps the value a key was first set to.
MapSet_KeepsFirst(map, key, value) ==
    [n \in DOMAIN map \cup {key} |-> IF n \in DOMAIN map THEN map[n] ELSE value]

\* entries.set(name, payload) (line 426): the map with the key set to the
\* value, whatever it held.
MapSet(map, key, value) ==
    [n \in DOMAIN map \cup {key} |-> IF n = key THEN value ELSE map[n]]

\* The method check reading one byte of the 16-bit field.
IsStored_LowByte(bytes, offset) == bytes[offset + 9] = 0

\* The compression-method check (lines 395-396).
IsStored(bytes, offset) == GetUint16(bytes, offset + 8) = 0

\* The local entry read with the CRC compared before the sizes.
ReadLocalEntry_CrcFirst(bytes, offset) ==
    IF offset + 10 > Len(bytes) THEN Failure("RangeError", <<>>)
    ELSE IF ~IsStored(bytes, offset)
         THEN Failure("UnsupportedCompression", <<>>)
    ELSE IF offset + 30 > Len(bytes) THEN Failure("RangeError", <<>>)
    ELSE LET nameLength == GetUint16(bytes, offset + 26)
             extraLength == GetUint16(bytes, offset + 28)
             compressedSize == GetUint32(bytes, offset + 18)
             uncompressedSize == GetUint32(bytes, offset + 22)
             expectedCrc == GetUint32(bytes, offset + 14)
             nameStart == offset + 30
             nameEnd == nameStart + nameLength
             dataStart == nameEnd + extraLength
             dataEnd == dataStart + compressedSize[2]
         IN IF compressedSize[1] # 0 \/ dataEnd > Len(bytes)
            THEN Failure("Truncated", <<>>)
            ELSE LET name == Utf8Decode(Slice(bytes, nameStart, nameEnd))
                     payload == Slice(bytes, dataStart, dataEnd)
                 IN IF crc32(payload) # expectedCrc
                    THEN Failure("CrcMismatch", name)
                    ELSE IF U32(Len(payload)) # uncompressedSize
                         THEN Failure("SizeMismatch", name)
                    ELSE [kind |-> "entry", name |-> name, payload |-> payload,
                          next |-> dataEnd]

\* One local entry at `offset` (lines 395-428): an error, or the entry and
\* the offset after it.  A DataView read past the end of the buffer raises
\* RangeError.  Buffers of the model are shorter than 65536 bytes, so a
\* size field with a non-zero high half always reaches past the end.
ReadLocalEntry(bytes, offset) ==
    IF offset + 10 > Len(bytes) THEN Failure("RangeError", <<>>)
    ELSE IF ~IsStored(bytes, offset)
         THEN Failure("UnsupportedCompression", <<>>)
    ELSE IF offset + 30 > Len(bytes) THEN Failure("RangeError", <<>>)
    ELSE LET nameLength == GetUint16(bytes, offset + 26)
             extraLength == GetUint16(bytes, offset + 28)
             compressedSize == GetUint32(bytes, offset + 18)
             uncompressedSize == GetUint32(bytes, offset + 22)
             expectedCrc == GetUint32(bytes, offset + 14)
             nameStart == offset + 30
             nameEnd == nameStart + nameLength
             dataStart == nameEnd + extraLength
             dataEnd == dataStart + compressedSize[2]
         IN IF compressedSize[1] # 0 \/ dataEnd > Len(bytes)
            THEN Failure("Truncated", <<>>)
            ELSE LET name == Utf8Decode(Slice(bytes, nameStart, nameEnd))
                     payload == Slice(bytes, dataStart, dataEnd)
                 IN IF U32(Len(payload)) # uncompressedSize
                    THEN Failure("SizeMismatch", name)
                    ELSE IF crc32(payload) # expectedCrc
                         THEN Failure("CrcMismatch", name)
                    ELSE [kind |-> "entry", name |-> name, payload |-> payload,
                          next |-> dataEnd]

\* The scan loop stopping at the central-directory signature only.
RECURSIVE ScanFrom_CentralOnly(_, _, _)
ScanFrom_CentralOnly(bytes, offset, map) ==
    IF offset + 4 > Len(bytes) THEN [kind |-> "map", entries |-> map]
    ELSE LET signature == GetUint32(bytes, offset) IN
         IF signature = ZIP_LOCAL_FILE_HEADER_SIGNATURE
         THEN LET r == ReadLocalEntry(bytes, offset) IN
              IF r.kind = "error" THEN r
              ELSE ScanFrom_CentralOnly(bytes, r.next,
                            [n \in DOMAIN map \cup {r.name} |->
                                IF n = r.name THEN r.payload ELSE map[n]])
         ELSE IF signature = ZIP_CENTRAL_DIR_SIGNATURE
              THEN [kind |-> "map", entries |-> map]
         ELSE ScanFrom_CentralOnly(bytes, offset + 1, map)

\* The scan loop (lines 392-438), from `offset` with the map built so far.
RECURSIVE ScanFrom(_, _, _)
ScanFrom(bytes, offset, map) ==
    IF offset + 4 > Len(bytes) THEN [kind |-> "map", entries |-> map]
    ELSE LET signature == GetUint32(bytes, offset) IN
         IF signature = ZIP_LOCAL_FILE_HEADER_SIGNATURE
         THEN LET r == ReadLocalEntry(bytes, offset) IN
              IF r.kind = "error" THEN r
              ELSE ScanFrom(bytes, r.next, MapSet(map, r.name, r.payload))
         ELSE IF signature = ZIP_CENTRAL_DIR_SIGNATURE
                 \/ signature = ZIP_END_CENTRAL_DIR_SIGNATURE
              THEN [kind |-> "map", entries |-> map]
         ELSE ScanFrom(bytes, offset + 1, map)

\* The iteration staying where it is when it finds no signature.
ScanIteration_Stays(bytes, offset, map) ==
    IF offset + 4 > Len(bytes) THEN [kind |-> "map", entries |-> map]
    ELSE LET signature == GetUint32(bytes, offset) IN
         IF signature = ZIP_LOCAL_FILE_HEADER_SIGNATURE
         THEN LET r == ReadLocalEntry(bytes, offset) IN
              IF r.kind = "error" THEN r
              ELSE [kind |-> "scanning", offset |-> r.next,
                    entries |-> [n \in DOMAIN map \cup {r.name} |->
                                    IF n = r.name THEN r.payload ELSE map[n]]]
         ELSE IF signature = ZIP_CENTRAL_DIR_SIGNATURE
                 \/ signature = ZIP_END_CENTRAL_DIR_SIGNATURE
              THEN [kind |-> "map", entries |-> map]
         ELSE [kind |-> "scanning", offset |-> offset, entries |-> map]

\* The iteration stepping over two bytes where it finds no signature.
ScanIteration_SkipsTwo(bytes, offset, map) ==
    IF offset + 4 > Len(bytes) THEN [kind |-> "map", entries |-> map]
    ELSE LET signature == GetUint32(bytes, offset) IN
         IF signature = ZIP_LOCAL_FILE_HEADER_SIGNATURE
         THEN LET r == ReadLocalEntry(bytes, offset) IN
              IF r.kind = "error" THEN r
              ELSE [kind |-> "scanning", offset |-> r.next,
                    entries |-> [n \in DOMAIN map \cup {r.name} |->
                                    IF n = r.name THEN r.payload ELSE map[n]]]
         ELSE IF signature = ZIP_CENTRAL_DIR_SIGNATURE
                 \/ signature = ZIP_END_CENTRAL_DIR_SIGNATURE
              THEN [kind |-> "map", entries |-> map]
         ELSE [kind |-> "scanning", offset |-> offset + 2, entries |-> map]

\* One iteration of the scan loop (lines 392-436) at `offset` with the map
\* built so far: the loop goes on at a new offset, ends with the map (its
\* condition is false, or the break of line 432), or throws.
ScanIteration(bytes, offset, map) ==
    IF offset + 4 > Len(bytes) THEN [kind |-> "map", entries |-> map]
    ELSE LET signature == GetUint32(bytes, offset) IN
         IF signature = ZIP_LOCAL_FILE_HEADER_SIGNATURE
         THEN LET r == ReadLocalEntry(bytes, offset) IN
              IF r.kind = "error" THEN r
              ELSE [kind |-> "scanning", offset |-> r.next,
                    entries |-> MapSet(map, r.name, r.payload)]
         ELSE IF signature = ZIP_CENTRAL_DIR_SIGNATURE
                 \/ signature = ZIP_END_CENTRAL_DIR_SIGNATURE
              THEN [kind |-> "map", entries |-> map]
         ELSE [kind |-> "scanning", offset |-> offset + 1, entries |-> map]

parseStoredZip(bytes) == ScanFrom(bytes, 0, <<>>)

\* ------------------------------------------------------------------------
\* JSON.parse on a string of code units (ECMA-404 grammar).  A parsed value
\* is a record with its type; a number is kept as its literal, an object as
\* its members in order of first appearance, a repeated key taking the last
\* value.  A step of the parser gives [ok, value, next] or JsonFail.
JsonFail == [ok |-> FALSE]
JsonOk(value, next) == [ok |-> TRUE, value |-> value, next |-> next]

RECURSIVE SkipWs(_, _)
SkipWs(t, i) ==
    IF i <= Len(t) /\ t[i] \in {32, 9, 10, 13} THEN SkipWs(t, i + 1) ELSE i

IsDigit(t, i) == i <= Len(t) /\ t[i] \in 48..57
IsHexDigit(t, i) ==
    i <= Len(t) /\ t[i] \in (48..57) \cup (65..70) \cup (97..102)
HexUnit(c) == IF c \in 48..57 THEN c - 48 ELSE IF c \in 65..70 THEN c - 55 ELSE c - 87

RECURSIVE SkipDigits(_, _)
SkipDigits(t, i) == IF IsDigit(t, i) THEN SkipDigits(t, i + 1) ELSE i

ParseLiteral(t, i, word, value) ==
    IF i + Len(word) - 1 <= Len(t) /\ SubSeq(t, i, i + Len(word) - 1) = word
    THEN JsonOk(value, i + Len(word))
    ELSE JsonFail

ParseNumber(t, i) ==
    LET int == IF t[i] = 45 THEN i + 1 ELSE i
        afterInt == IF IsDigit(t, int) /\ t[int] = 48 THEN int + 1
                    ELSE SkipDigits(t, int)
        hasFrac == afterInt <= Len(t) /\ t[afterInt] = 46
        afterFrac == IF hasFrac THEN SkipDigits(t, afterInt + 1) ELSE afterInt
        hasExp == afterFrac <= Len(t) /\ t[afterFrac] \in {101, 69}
        expDigits == IF hasExp /\ afterFrac + 1 <= Len(t) /\ t[afterFrac + 1] \in {43, 45}
                     THEN afterFrac + 2 ELSE afterFrac + 1
        afterExp == IF hasExp THEN SkipDigits(t, expDigits) ELSE afterFrac
    IN IF ~IsDigit(t, int) THEN JsonFail
       ELSE IF hasFrac /\ afterFrac = afterInt + 1 THEN JsonFail
       ELSE IF hasExp /\ afterExp = expDigits THEN JsonFail
       ELSE JsonOk([type |-> "number", literal |-> SubSeq(t, i, afterExp - 1)], afterExp)

\* The characters of a string from i, after its opening quote.
RECURSIVE ParseChars(_, _, _)
ParseChars(t, i, chars) ==
    IF i > Len(t) THEN JsonFail
    ELSE IF t[i] = 34 THEN JsonOk([type |-> "string", value |-> chars], i + 1)
    ELSE IF t[i] < 32 THEN JsonFail
    ELSE IF t[i] # 92 THEN ParseChars(t, i + 1, Append(chars, t[i]))
    ELSE IF i + 1 > Len(t) THEN JsonFail
    ELSE IF t[i + 1] \in {34, 92, 47} THEN ParseChars(t, i + 2, Append(chars, t[i + 1]))
    ELSE IF t[i + 1] = 98 THEN ParseChars(t, i + 2, Append(chars, 8))
    ELSE IF t[i + 1] = 102 THEN ParseChars(t, i + 2, Append(chars, 12))
    ELSE IF t[i + 1] = 110 THEN ParseChars(t, i + 2, Append(chars, 10))
    ELSE IF t[i + 1] = 114 THEN ParseChars(t, i + 2, Append(chars, 13))
    ELSE IF t[i + 1] = 116 THEN ParseChars(t, i + 2, Append(chars, 9))
    ELSE IF t[i + 1] = 117 /\ \A k \in 2..5 : IsHexDigit(t, i + k)
         THEN ParseChars(t, i + 6,
                         Append(chars, ((HexUnit(t[i + 2]) * 16 + HexUnit(t[i + 3])) * 16
                                        + HexUnit(t[i + 4])) * 16 + HexUnit(t[i + 5])))
    ELSE JsonFail

\* An object's members with one more: a key it has keeps its place and
\* takes the new value.
SetMember(members, key, value) ==
    IF \E k \in 1..Len(members) : members[k].key = key
    THEN [k \in 1..Len(members) |->
             IF members[k].key = key THEN [key |-> key, value |-> value]
             ELSE members[k]]
    ELSE Append(members, [key |-> key, value |-> value])

RECURSIVE ParseValue(_, _)
RECURSIVE ParseElements(_, _, _)
RECURSIVE ParseMembers(_, _, _)

\* The elements of an array from i, where a value is due.
ParseElements(t, i, items) ==
    LET v == ParseValue(t, i)
        after == IF v.ok THEN SkipWs(t, v.next) ELSE 0
    IN IF ~v.ok \/ after > Len(t) THEN JsonFail
       ELSE IF t[after] = 44 THEN ParseElements(t, after + 1, Append(items, v.value))
       ELSE IF t[after] = 93
            THEN JsonOk([type |-> "array", items |-> Append(items, v.value)], after + 1)
       ELSE JsonFail

\* The members of an object from i, where a key is due.
ParseMembers(t, i, members) ==
    LET at == SkipWs(t, i)
        key == IF at <= Len(t) /\ t[at] = 34 THEN ParseChars(t, at + 1, <<>>)
               ELSE JsonFail
        colon == IF key.ok THEN SkipWs(t, key.next) ELSE 0
        v == IF key.ok /\ colon <= Len(t) /\ t[colon] = 58
             THEN ParseValue(t, colon + 1) ELSE JsonFail
        after == IF v.ok THEN SkipWs(t, v.next) ELSE 0
    IN IF ~v.ok \/ after > Len(t) THEN JsonFail
       ELSE IF t[after] = 44
            THEN ParseMembers(t, after + 1, SetMember(members, key.value.value, v.value))
       ELSE IF t[after] = 125
            THEN JsonOk([type |-> "object",
                         members |-> SetMember(members, key.value.value, v.value)],
                        after + 1)
       ELSE JsonFail

ParseValue(t, i) ==
    LET at == SkipWs(t, i)
    IN IF at > Len(t) THEN JsonFail
       ELSE IF t[at] = 110 THEN ParseLiteral(t, at, <<110, 117, 108, 108>>, [type |-> "null"])
       ELSE IF t[at] = 116
            THEN ParseLiteral(t, at, <<116, 114, 117, 101>>,
                              [type |-> "boolean", value |-> TRUE])
       ELSE IF t[at] = 102
            THEN ParseLiteral(t, at, <<102, 97, 108, 115, 101>>,
                              [type |-> "boolean", value |-> FALSE])
       ELSE IF t[at] = 34 THEN ParseChars(t, at + 1, <<>>)
       ELSE IF t[at] = 45 \/ IsDigit(t, at) THEN ParseNumber(t, at)
       ELSE IF t[at] = 91
            THEN IF SkipWs(t, at + 1) <= Len(t) /\ t[SkipWs(t, at + 1)] = 93
                 THEN JsonOk([type |-> "array", items |-> <<>>], SkipWs(t, at + 1) + 1)
                 ELSE ParseElements(t, at + 1, <<>>)
       ELSE IF t[at] = 123
            THEN IF SkipWs(t, at + 1) <= Len(t) /\ t[SkipWs(t, at + 1)] = 125
                 THEN JsonOk([type |-> "object", members |-> <<>>], SkipWs(t, at + 1) + 1)
                 ELSE ParseMembers(t, at + 1, <<>>)
       ELSE JsonFail

\* JSON.parse(text): the value, or a SyntaxError thrown.
JsonParse(text) ==
    LET v == ParseValue(text, 1)
    IN IF v.ok /\ SkipWs(text, v.next) = Len(text) + 1
       THEN [ok |-> TRUE, value |-> v.value]
       ELSE JsonFail

\* ------------------------------------------------------------------------
\* The reader's accessors (lines 441-456).  A ZipEntries map is a function
\* from names to payloads; what an accessor gives is null, a string, a
\* parsed value, or the Error it throws.
Null == [kind |-> "null"]

\* readZipText treating an empty payload as a missing one.
readZipText_Falsy(map, name) ==
    IF name \in DOMAIN map /\ Len(map[name]) > 0
    THEN [kind |-> "string", value |-> Utf8Decode(map[name])]
    ELSE Null

\* readZipText (lines 441-444): map.get(name) is undefined for a
\* missing key and a Uint8Array, which is truthy, for a key of the map.
readZipText(map, name) ==
    IF name \in DOMAIN map
    THEN [kind |-> "string", value |-> Utf8Decode(map[name])]
    ELSE Null

\* readZipJson (lines 446-456); a parsed null is JavaScript's null.
readZipJson(map, name) ==
    LET text == readZipText(map, name)
    IN IF text.kind = "null" THEN Null
       ELSE LET parsed == JsonParse(text.value)
            IN IF parsed.ok
               THEN (IF parsed.value = [type |-> "null"] THEN Null
                     ELSE [kind |-> "json", value |-> parsed.value])
               ELSE Failure("Failed to parse JSON", name)

\* ------------------------------------------------------------------------
\* SHA-256 (src/packages/shared/src/utils/index.ts).  JavaScript's &, ~, <<
\* and >>> on uint32 values kept as <<hi, lo>>; a sum followed by >>> 0 is
\* the sum modulo 2^32.
RECURSIVE BitAnd(_, _)
BitAnd(a, b) ==
    IF a = 0 \/ b = 0 THEN 0
    ELSE (IF a % 2 = 1 /\ b % 2 = 1 THEN 1 ELSE 0) + 2 * BitAnd(a \div 2, b \div 2)

AndU32(a, b) == << BitAnd(a[1], b[1]), BitAnd(a[2], b[2]) >>
OrU32(a, b) == << BitOr(a[1], b[1]), BitOr(a[2], b[2]) >>
NotU32(a) == << 65535 - a[1], 65535 - a[2] >>
AddU32_NoCarry(a, b) == << (a[1] + b[1]) % 65536, (a[2] + b[2]) % 65536 >>
AddU32(a, b) ==
    << (a[1] + b[1] + ((a[2] + b[2]) \div 65536)) % 65536, (a[2] + b[2]) % 65536 >>

\* value >>> amount and value << amount, for 0 < amount < 32.
ShrU32(value, amount) ==
    IF amount < 16
    THEN << value[1] \div (2 ^ amount),
            (value[2] \div (2 ^ amount))
            + ((value[1] % (2 ^ amount)) * (2 ^ (16 - amount))) >>
    ELSE << 0, value[1] \div (2 ^ (amount - 16)) >>
ShlU32(value, amount) ==
    IF amount < 16
    THEN << ((value[1] * (2 ^ amount)) % 65536) + (value[2] \div (2 ^ (16 - amount))),
            (value[2] * (2 ^ amount)) % 65536 >>
    ELSE << (value[2] * (2 ^ (amount - 16))) % 65536, 0 >>

\* The round constants K (lines 32-41) and the initial hash H0 (lines 43-45).
K ==
    << <<17034, 12184>>, <<28983, 17553>>, <<46528, 64463>>, <<59829, 56229>>,
       <<14678, 49755>>, <<23025, 4593>>, <<37439, 33444>>, <<43804, 24277>>,
       <<55303, 43672>>, <<4739, 23297>>, <<9265, 34238>>, <<21772, 32195>>,
       <<29374, 23924>>, <<32990, 45566>>, <<39900, 1703>>, <<49563, 61812>>,
       <<58523, 27073>>, <<61374, 18310>>, <<4033, 40390>>, <<9228, 41420>>,
       <<11753, 11375>>, <<19060, 33962>>, <<23728, 43484>>, <<30457, 35034>>,
       <<38974, 20818>>, <<43057, 50797>>, <<45059, 10184>>, <<48985, 32711>>,
       <<50912, 3059>>, <<54695, 37191>>, <<1738, 25425>>, <<5161, 10599>>,
       <<10167, 2693>>, <<11803, 8504>>, <<19756, 28156>>, <<21304, 3347>>,
       <<25866, 29524>>, <<30314, 2747>>, <<33218, 51502>>, <<37490, 11397>>,
       <<41663, 59553>>, <<43034, 26187>>, <<49739, 35696>>, <<51052, 20899>>,
       <<53650, 59417>>, <<54937, 1572>>, <<62478, 13701>>, <<4202, 41072>>,
       <<6564, 49430>>, <<7735, 27656>>, <<10056, 30540>>, <<13488, 48309>>,
       <<14620, 3251>>, <<20184, 43594>>, <<23452, 51791>>, <<26670, 28659>>,
       <<29839, 33518>>, <<30885, 25455>>, <<33992, 30740>>, <<36039, 520>>,
       <<37054, 65530>>, <<42064, 27883>>, <<48889, 41975>>, <<50801, 30962>> >>

H0 ==
    << <<27145, 58983>>, <<47975, 44677>>, <<15470, 62322>>, <<42319, 62778>>,
       <<20750, 21119>>, <<39685, 26764>>, <<8067, 55723>>, <<23520, 52505>> >>

\* rightRotate without the bits that wrap around.
rightRotate_ShiftOnly(value, amount) == ShrU32(value, amount)

\* rightRotate (lines 47-48).
rightRotate(value, amount) ==
    OrU32(ShrU32(value, amount), ShlU32(value, 32 - amount))

\* DataView.setUint32 / getUint32, big endian (the default).
SetUint32BE(w) == << w[1] \div 256, w[1] % 256, w[2] \div 256, w[2] % 256 >>
GetUint32BE(buffer, at) ==
    << (buffer[at + 1] * 256) + buffer[at + 2], (buffer[at + 3] * 256) + buffer[at + 4] >>

\* Lines 51-62 of sha256: the padded buffer.  (n & ~63) clears the low six
\* bits of n; the lengths here are far below 2^29, so high is 0.
PaddedLength_NoRoom(length) == (length + 8 + 63) - ((length + 8 + 63) % 64)
PaddedLength(length) == (length + 9 + 63) - ((length + 9 + 63) % 64)
PadBuffer(bytes) ==
    LET length == Len(bytes)
        bitLength == length * 8
        paddedLength == PaddedLength(length)
        buffer == SetAt(SetAt(Zeros(paddedLength), bytes, 0), <<128>>, length)
        high == <<0, 0>>
        low == U32(bitLength)
    IN SetAt(SetAt(buffer, SetUint32BE(high), paddedLength - 8),
             SetUint32BE(low), paddedLength - 4)

\* Lines 68-76: the message schedule of the block at i.  The words so far
\* are the loop state; t is their number.
RECURSIVE ExpandSchedule(_)
ExpandSchedule(w) ==
    IF Len(w) = 64 THEN w
    ELSE LET t == Len(w)
             w15 == w[t - 15 + 1]
             w2 == w[t - 2 + 1]
             s0 == XorU32(XorU32(rightRotate(w15, 7), rightRotate(w15, 18)),
                          ShrU32(w15, 3))
             s1 == XorU32(XorU32(rightRotate(w2, 17), rightRotate(w2, 19)),
                          ShrU32(w2, 10))
         IN ExpandSchedule(Append(w, AddU32(AddU32(AddU32(w[t - 16 + 1], s0),
                                                   w[t - 7 + 1]), s1)))

Schedule(buffer, i) ==
    ExpandSchedule([t \in 1..16 |-> GetUint32BE(buffer, i + (t - 1) * 4)])

\* Lines 87-103: the compression rounds.  The loop state is t and a..h.
RECURSIVE CompressRounds(_, _)
CompressRounds(v, w) ==
    IF v.t = 64 THEN v
    ELSE LET S1 == XorU32(XorU32(rightRotate(v.e, 6), rightRotate(v.e, 11)),
                          rightRotate(v.e, 25))
             ch == XorU32(AndU32(v.e, v.f), AndU32(NotU32(v.e), v.g))
             temp1 == AddU32(AddU32(AddU32(AddU32(v.h, S1), ch), K[v.t + 1]),
                             w[v.t + 1])
             S0 == XorU32(XorU32(rightRotate(v.a, 2), rightRotate(v.a, 13)),
                          rightRotate(v.a, 22))
             maj == XorU32(XorU32(AndU32(v.a, v.b), AndU32(v.a, v.c)),
                           AndU32(v.b, v.c))
             temp2 == AddU32(S0, maj)
         IN CompressRounds([t |-> v.t + 1,
                            h |-> v.g, g |-> v.f, f |-> v.e,
                            e |-> AddU32(v.d, temp1),
                            d |-> v.c, c |-> v.b, b |-> v.a,
                            a |-> AddU32(temp1, temp2)], w)

\* Lines 67-113: one pass of the loop over the blocks; the loop state is i
\* and hash.
RECURSIVE ProcessBlocks(_, _)
ProcessBlocks(s, buffer) ==
    IF ~(s.i < Len(buffer)) THEN s.hash
    ELSE LET w == Schedule(buffer, s.i)
             hash == s.hash
             v == CompressRounds([t |-> 0, a |-> hash[1], b |-> hash[2],
                                  c |-> hash[3], d |-> hash[4], e |-> hash[5],
                                  f |-> hash[6], g |-> hash[7], h |-> hash[8]], w)
         IN ProcessBlocks([i |-> s.i + 64,
                           hash |-> << AddU32(hash[1], v.a), AddU32(hash[2], v.b),
                                       AddU32(hash[3], v.c), AddU32(hash[4], v.d),
                                       AddU32(hash[5], v.e), AddU32(hash[6], v.f),
                                       AddU32(hash[7], v.g), AddU32(hash[8], v.h) >>],
                          buffer)

\* The final hash words of sha256(bytes), and the 32 bytes it returns (lines
\* 115-123): each word big endian.
FinalHash(bytes) == ProcessBlocks([i |-> 0, hash |-> H0], PadBuffer(bytes))
ResultBytes(hash) ==
    [k \in 1..32 |->
        LET word == hash[((k - 1) \div 4) + 1]
        IN IF (k - 1) % 4 = 0 THEN ShrU32(word, 24)[2] % 256
           ELSE IF (k - 1) % 4 = 1 THEN ShrU32(word, 16)[2] % 256
           ELSE IF (k - 1) % 4 = 2 THEN ShrU32(word, 8)[2] % 256
           ELSE word[2] % 256]
sha256(bytes) == ResultBytes(FinalHash(bytes))

\* toHex (lines 126-127): byte.toString(16).padStart(2, '0') of every byte,
\* joined; the characters are code units ('0' is 48, 'a' is 97).
HexDigit(n) == IF n < 10 THEN 48 + n ELSE 97 + (n - 10)
ByteToString16(byte) ==
    IF byte < 16 THEN <<HexDigit(byte)>> ELSE <<HexDigit(byte \div 16), HexDigit(byte % 16)>>
PadStart2_None(str) == str
PadStart2(str) == IF Len(str) < 2 THEN <<48>> \o str ELSE str
RECURSIVE Join(_)
Join(strs) == IF strs = <<>> THEN <<>> ELSE Head(strs) \o Join(Tail(strs))
toHex(bytes) == Join([k \in 1..Len(bytes) |-> PadStart2(ByteToString16(bytes[k]))])

\* toUint8Array of the payload (lines 12-30): the bytes hashed.  A payload
\* is a string, or a Uint8Array, ArrayBuffer or DataView with its buffer.
toUint8ArrayPayload(payload) ==
    IF payload.kind = "string" THEN Utf8Encode(payload.text)
    ELSE IF payload.kind = "Uint8Array"
         THEN SubSeq(payload.bytes, payload.byteOffset + 1,
                     payload.byteOffset + payload.length)
    ELSE IF payload.kind = "ArrayBuffer" THEN payload.bytes
    ELSE SubSeq(payload.bytes, payload.byteOffset + 1,
                payload.byteOffset + payload.length)

\* calculateSha256 (lines 129-132).
calculateSha256(payload) == toHex(sha256(toUint8ArrayPayload(payload)))

\* ------------------------------------------------------------------------
\* The inputs the caller draws from.
Dates ==
    { [year |-> 1975, month |-> 0, day |-> 1, hours |-> 0, minutes |-> 0,
       seconds |-> 0],
      [year |-> 2024, month |-> 10, day |-> 5, hours |-> 21, minutes |-> 46,
       seconds |-> 59] }

\* "a", "\\a" (two backslashes), "e-acute" (two bytes of UTF-8) and
\* U+FEFF followed by "a".
Names == { <<97>>, <<92, 92, 97>>, <<233>>, <<65279, 97>> }

\* File contents: a string, or a new buffer of the caller's with these bytes,
\* passed as a Uint8Array or DataView of part of it or as the ArrayBuffer.
Contents ==
    { [kind |-> "string", text |-> <<233>>],
      [kind |-> "Uint8Array", bytes |-> <<7, 0>>, byteOffset |-> 1, length |-> 1],
      [kind |-> "ArrayBuffer", bytes |-> <<>>, byteOffset |-> 0, length |-> 0],
      [kind |-> "DataView", bytes |-> <<80, 75>>, byteOffset |-> 0, length |-> 2] }

\* The values a byte b is changed to: one bit flipped, or all of them.
Changed(b) == {IF b % 2 = 0 THEN b + 1 ELSE b - 1, 255 - b}

NoReturn == [kind |-> "none"]
NoOrigin == [kind |-> "none"]

\* The caller's argument for contents c, and the heap once the caller has
\* allocated its buffer.
CallerArg(h, c) ==
    IF c.kind = "string" THEN [heap |-> h, arg |-> c]
    ELSE LET id == FreshBuf(DOMAIN h)
         IN [heap |-> (id :> [bytes |-> c.bytes, shared |-> TRUE]) @@ h,
             arg |-> [kind |-> c.kind, buf |-> id, byteOffset |-> c.byteOffset,
                      length |-> c.length]]

\* The payload the caller means by an argument: the UTF-8 bytes of a string,
\* the bytes a view shows, all the bytes of an ArrayBuffer.
ArgBytes(h, arg) ==
    IF arg.kind = "string" THEN Utf8Encode(arg.text)
    ELSE IF arg.kind = "ArrayBuffer" THEN h[arg.buf].bytes
    ELSE SubSeq(h[arg.buf].bytes, arg.byteOffset + 1, arg.byteOffset + arg.length)

SharedBufs == {id \in DOMAIN heap : heap[id].shared}

Init ==
    /\ builder \in {"build", "generate"}
    /\ now \in Dates
    /\ entries = <<>>
    /\ heap = <<>>
    /\ writes = 0
    /\ lastOp = "new"
    /\ ret = NoReturn
    /\ input = <<>>
    /\ origin = NoOrigin
    /\ added = <<>>
    /\ NoCli
    /\ NoMail

\* builder.addFile(path, contents), the path and contents drawn from the
\* given sets.
AddFileOf(paths, contents) ==
    /\ builder = "build"
    /\ Len(entries) < MaxEntries
    /\ \E path \in paths :
         \E a \in {CallerArg(heap, c) : c \in contents} :
            LET r == addFile(entries, a.heap, path, a.arg, now)
            IN /\ entries' = r.entries
               /\ heap' = r.heap
               /\ added' = Append(added, [name |-> path,
                                          payload |-> ArgBytes(a.heap, a.arg)])
    /\ lastOp' = "addFile"
    /\ ret' = [kind |-> "this"]
    /\ input' = <<>>
    /\ origin' = NoOrigin
    /\ UNCHANGED <<cliVars, mailVars, builder, now, writes>>

AddFile == AddFileOf(Names, Contents)

\* builder.file(name, content), the name and content drawn from the given
\* sets; its type admits no DataView.
FileOf(names, contents) ==
    /\ builder = "generate"
    /\ Len(entries) < MaxEntries
    /\ \E name \in names :
         \E a \in {CallerArg(heap, c) : c \in {d \in contents : d.kind # "DataView"}} :
            LET r == file(entries, a.heap, name, a.arg, now)
            IN /\ entries' = r.entries
               /\ heap' = r.heap
               /\ added' = Append(added, [name |-> name,
                                          payload |-> ArgBytes(a.heap, a.arg)])
    /\ lastOp' = "file"
    /\ ret' = [kind |-> "this"]
    /\ input' = <<>>
    /\ origin' = NoOrigin
    /\ UNCHANGED <<cliVars, mailVars, builder, now, writes>>

File == FileOf(Names, Contents)

\* The buffers alive when a build allocates its output: those of the heap
\* and the result of the call before, which the caller still holds.
LiveBufs == DOMAIN heap \cup (IF ret.kind = "buffer" THEN {ret.buf} ELSE {})

\* builder.build().
Build ==
    /\ builder = "build"
    /\ LET r == build(entries, heap)
       IN /\ entries' = r.entries
          /\ ret' = [kind |-> "buffer", buf |-> FreshBuf(LiveBufs),
                     bytes |-> r.output]
    /\ lastOp' = "build"
    /\ input' = <<>>
    /\ origin' = NoOrigin
    /\ UNCHANGED <<cliVars, mailVars, builder, now, heap, writes, added>>

\* await builder.generateAsync(options) (lines 375-381).  With type
\* 'uint8array' the result is a Uint8Array over the whole ArrayBuffer that
\* generate() returned: the same buffer and the same bytes either way.
GenerateAsync ==
    /\ builder = "generate"
    /\ LET r == generate(entries, heap)
       IN /\ entries' = r.entries
          /\ ret' = [kind |-> "buffer", buf |-> FreshBuf(LiveBufs),
                     bytes |-> r.output]
    /\ lastOp' = "generateAsync"
    /\ input' = <<>>
    /\ origin' = NoOrigin
    /\ UNCHANGED <<cliVars, mailVars, builder, now, heap, writes, added>>

\* The caller writes a byte of a buffer it passed as file contents.
CallerWrite ==
    /\ writes < MaxWrites
    /\ \E id \in SharedBufs :
         \E k \in 1..Len(heap[id].bytes) :
            \E v \in Changed(heap[id].bytes[k]) :
               heap' = [heap EXCEPT ![id].bytes[k] = v]
    /\ writes' = writes + 1
    /\ lastOp' = "write"
    /\ ret' = NoReturn
    /\ input' = <<>>
    /\ origin' = NoOrigin
    /\ UNCHANGED <<cliVars, mailVars, builder, now, entries, added>>

\* parseStoredZip of the buffer the last build returned.
ParseArchive ==
    /\ ret.kind = "buffer"
    /\ input' = ret.bytes
    /\ origin' = [kind |-> "archive"]
    /\ ret' = parseStoredZip(input')
    /\ lastOp' = "parseStoredZip"
    /\ UNCHANGED <<cliVars, mailVars,
                   builder, now, entries, heap, writes, added>>

\* Where entry i's payload starts in the archive the last build returned
\* (0-based): after its local header and name.
PayloadStart(i) == entries[i].offset + 30 + Len(Utf8Encode(entries[i].name))

\* parseStoredZip of a copy of that buffer with one payload byte of entry i
\* changed.
ParseCorrupted ==
    /\ ret.kind = "buffer"
    /\ \E i \in 1..Len(entries) :
         \E k \in 1..entries[i].data.length :
            \E v \in Changed(ret.bytes[PayloadStart(i) + k]) :
               /\ input' = [ret.bytes EXCEPT ![PayloadStart(i) + k] = v]
               /\ origin' = [kind |-> "corrupted", entry |-> i]
    /\ ret' = parseStoredZip(input')
    /\ lastOp' = "parseStoredZip"
    /\ UNCHANGED <<cliVars, mailVars,
                   builder, now, entries, heap, writes, added>>

\* A hand-crafted 30-byte local file header, cut to its first `cut` bytes.
CraftedHeader(f, cut) ==
    SubSeq(SetUint32W(ZIP_LOCAL_FILE_HEADER_SIGNATURE) \o SetUint16(20)
           \o SetUint16(0) \o SetUint16(f.method) \o SetUint16(0) \o SetUint16(0)
           \o SetUint32W(f.crc) \o SetUint32W(f.compressedSize)
           \o SetUint32W(f.uncompressedSize) \o SetUint16(f.nameLength)
           \o SetUint16(f.extraLength), 1, cut)

\* The headers the caller crafts: methods that differ from STORE in the low
\* byte, the high byte or both, with sizes, CRC and name length that are
\* zero, plausible, or as large as the fields hold; whole, or cut after the
\* method field.
Crafted(method, crc, compressedSize, uncompressedSize, nameLength, extraLength, cut) ==
    [method |-> method, crc |-> crc, compressedSize |-> compressedSize,
     uncompressedSize |-> uncompressedSize, nameLength |-> nameLength,
     extraLength |-> extraLength, cut |-> cut]

CraftedHeaders ==
    { Crafted(8, <<0, 0>>, <<0, 0>>, <<0, 0>>, 0, 0, 30),
      Crafted(8, <<0, 0>>, <<0, 0>>, <<0, 0>>, 0, 0, 10),
      Crafted(1, <<59575, 48707>>, <<0, 1>>, <<0, 1>>, 1, 0, 30),
      Crafted(256, <<0, 0>>, <<0, 2>>, <<0, 7>>, 0, 0, 30),
      Crafted(65535, <<65535, 65535>>, <<65535, 65535>>, <<65535, 65535>>,
              65535, 65535, 30) }

\* Where the central directory of an archive starts: the offset field of its
\* end record, the last 22 bytes.
CentralStart(bytes) == GetUint16(bytes, Len(bytes) - 22 + 16)

\* parseStoredZip of the local segments of the last archive followed by a
\* hand-crafted local header (whole, or cut after its method field) and two
\* more bytes.
ParseCrafted ==
    /\ ret.kind = "buffer"
    /\ \E f \in CraftedHeaders :
         /\ input' = SubSeq(ret.bytes, 1, CentralStart(ret.bytes))
                     \o CraftedHeader(f, f.cut)
                     \o (IF f.cut = 30 THEN <<97, 97>> ELSE <<>>)
         /\ origin' = [kind |-> "crafted", method |-> f.method]
    /\ ret' = parseStoredZip(input')
    /\ lastOp' = "parseStoredZip"
    /\ UNCHANGED <<cliVars, mailVars,
                   builder, now, entries, heap, writes, added>>

\* What a caller appends behind a directory signature: a local entry "zz"
\* that is whole and sound, one with a compression method, one with a wrong
\* CRC, one whose size reaches past the end, and a header cut after its
\* method field.
Trailers ==
    { [id |-> "sound", header |-> Crafted(0, <<59575, 48707>>, <<0, 1>>, <<0, 1>>, 2, 0, 30)],
      [id |-> "compressed", header |-> Crafted(8, <<59575, 48707>>, <<0, 1>>, <<0, 1>>, 2, 0, 30)],
      [id |-> "crc", header |-> Crafted(0, <<0, 0>>, <<0, 1>>, <<0, 1>>, 2, 0, 30)],
      [id |-> "truncated", header |-> Crafted(0, <<59575, 48707>>, <<0, 9>>, <<0, 9>>, 2, 0, 30)],
      [id |-> "cut", header |-> Crafted(0, <<0, 0>>, <<0, 0>>, <<0, 0>>, 0, 0, 10)] }
TrailerBytes(t) ==
    CraftedHeader(t.header, t.header.cut)
    \o (IF t.header.cut = 30 THEN <<122, 122, 97>> ELSE <<>>)

\* The local segments of an archive followed by its own directory, or by
\* the four bytes of one directory signature alone.
UpToDirectory(bytes, stop) ==
    IF stop = "archive" THEN bytes
    ELSE SubSeq(bytes, 1, CentralStart(bytes))
         \o SetUint32W(IF stop = "central" THEN ZIP_CENTRAL_DIR_SIGNATURE
                       ELSE ZIP_END_CENTRAL_DIR_SIGNATURE)

\* parseStoredZip of the last archive, or of its local segments and one
\* directory signature, with a local header appended.
ParseTrailing ==
    /\ ret.kind = "buffer"
    /\ \E t \in Trailers, stop \in {"archive", "central", "end"} :
         /\ input' = UpToDirectory(ret.bytes, stop) \o TrailerBytes(t)
         /\ origin' = [kind |-> "trailing", trailer |-> t.id, stop |-> stop]
    /\ ret' = parseStoredZip(input')
    /\ lastOp' = "parseStoredZip"
    /\ UNCHANGED <<cliVars, mailVars,
                   builder, now, entries, heap, writes, added>>

\* The reader, one iteration of its loop at a time.  While it runs, `ret`
\* holds its locals: the scan offset and the map built so far (line 389-390).
Scanning == [kind |-> "scanning", offset |-> 0, entries |-> <<>>]

\* parseStoredZip is synchronous: nothing else runs until it has returned.
NotScanning == ret.kind # "scanning"

\* A name too long for the model's encoder to walk through: `prefix`
\* followed by `char` up to `length` characters, all ASCII.
EncodeLong(name) ==
    name.prefix \o [k \in 1..(name.length - Len(name.prefix)) |-> name.char]

\* What generateAsync returns for a new builder after file(name, '') with
\* such a name (lines 283-296, 298-373): one local segment, one directory
\* record, the end record.
LongArchive(name, date) ==
    LET t == toDosDateTime(date)
        entry == [name |-> name, data |-> [buf |-> 1, byteOffset |-> 0, length |-> 0],
                  crc |-> crc32(<<>>), size |-> 0, offset |-> 0,
                  dosDate |-> t.dosDate, dosTime |-> t.dosTime]
        nameBytes == EncodeLong(name)
        localSegment == concatBuffers(<<LocalSegmentHeader(entry, nameBytes), <<>> >>)
        centralSegment == concatBuffers(<<CentralDirectoryHeader(entry, nameBytes)>>)
        endRecord == buildEndRecord(<<entry>>, Len(centralSegment), Len(localSegment))
    IN concatBuffers(<<localSegment, centralSegment, endRecord>>)

\* The bytes parseStoredZip was given: those of `input`, or the archive of
\* the long name `input` stands for.
InputBytes == IF origin.kind = "longName" THEN LongArchive(input, now) ELSE input

\* One iteration of the scan loop of the running parseStoredZip(input).
ScanStep ==
    /\ ret.kind = "scanning"
    /\ ret' = ScanIteration(InputBytes, ret.offset, ret.entries)
    /\ UNCHANGED <<cliVars, mailVars,
                   builder, now, entries, heap, writes, lastOp, input, origin, added>>

\* parseStoredZip is called on the archive the last build returned.
StartArchive ==
    /\ ret.kind = "buffer"
    /\ input' = ret.bytes
    /\ origin' = [kind |-> "archive"]
    /\ ret' = Scanning
    /\ lastOp' = "parseStoredZip"
    /\ UNCHANGED <<cliVars, mailVars, builder, now, entries, heap, writes, added>>

\* The long names a caller uses: 65536 or 65537 characters that begin with
\* the characters of a directory signature, behind nothing, behind a NUL or
\* behind an "a", or with those of a whole local entry "zz" and a
\* signature.
LongNamed ==
    { [prefix |-> <<80, 75, 1, 2>>, char |-> 97, length |-> 65536],
      [prefix |-> <<80, 75, 5, 6>>, char |-> 97, length |-> 65536],
      [prefix |-> <<0, 80, 75, 1, 2>>, char |-> 97, length |-> 65536],
      [prefix |-> <<97, 80, 75, 1, 2>>, char |-> 97, length |-> 65537],
      [prefix |-> CraftedHeader(Crafted(0, <<59575, 48707>>, <<0, 1>>, <<0, 1>>,
                                        2, 0, 30), 30)
                  \o <<122, 122, 97, 80, 75, 1, 2>>,
       char |-> 97, length |-> 65536] }

\* The caller makes another builder, calls file(name, '') with a long name
\* and generateAsync(), and calls parseStoredZip on the result, before it
\* does anything else.  The state keeps the name in place of the bytes.
StartLongNamed ==
    /\ lastOp = "new"
    /\ builder = "generate"
    /\ \E name \in LongNamed : input' = name
    /\ origin' = [kind |-> "longName"]
    /\ ret' = Scanning
    /\ lastOp' = "parseStoredZip"
    /\ UNCHANGED <<cliVars, mailVars, builder, now, entries, heap, writes, added>>

\* What a caller pads an archive with: runs of bytes that hold none of the
\* three signatures, among them the first bytes of one, one backwards, and
\* the data-descriptor signature.
Paddings ==
    { <<0>>, <<80, 75, 3>>, <<80, 75, 7, 8>>, <<4, 3, 75, 80, 0>>,
      <<80, 75, 80, 75, 1>> }

\* Where the local segments of the last archive start (0-based).
SegmentStarts == {entries[i].offset : i \in 1..Len(entries)}

InsertAt(bytes, at, pad) ==
    SubSeq(bytes, 1, at) \o pad \o SubSeq(bytes, at + 1, Len(bytes))

\* parseStoredZip is called on the last archive with padding put in front of
\* one of its local segments.
StartPadded ==
    /\ ret.kind = "buffer"
    /\ \E pad \in Paddings, at \in SegmentStarts :
         /\ input' = InsertAt(ret.bytes, at, pad)
         /\ origin' = [kind |-> "padded", archive |-> ret.bytes, at |-> at,
                       pad |-> pad]
    /\ ret' = Scanning
    /\ lastOp' = "parseStoredZip"
    /\ UNCHANGED <<cliVars, mailVars,
                   builder, now, entries, heap, writes, added>>

\* The local entries a caller crafts to fail any subset of the reader's
\* checks: the method is STORE or not, the compressed size is that of the
\* payload or reaches past the end, the uncompressed size agrees or not, the
\* CRC is that of the payload "a" or not.
CheckedHeaders ==
    { Crafted(method, crc, <<0, compressedSize>>, <<0, uncompressedSize>>, 2, 0, 30) :
        method \in {0, 8}, crc \in {<<59575, 48707>>, <<0, 0>>},
        compressedSize \in {1, 9}, uncompressedSize \in {1, 2} }

\* parseStoredZip of the local segments of the last archive followed by a
\* crafted entry named "zz" with the payload "a".
ParseChecked ==
    /\ ret.kind = "buffer"
    /\ \E f \in CheckedHeaders :
         /\ input' = SubSeq(ret.bytes, 1, CentralStart(ret.bytes))
                     \o CraftedHeader(f, 30) \o <<122, 122, 97>>
         /\ origin' = [kind |-> "checked", header |-> f]
    /\ ret' = parseStoredZip(input')
    /\ lastOp' = "parseStoredZip"
    /\ UNCHANGED <<cliVars, mailVars,
                   builder, now, entries, heap, writes, added>>

\* ------------------------------------------------------------------------
\* The writer alone.
NextWrite ==
    \/ AddFile
    \/ File
    \/ Build
    \/ GenerateAsync

SpecWrite == Init /\ [][NextWrite]_vars

\* The writer, and a caller that writes into the buffers it passed.
NextCaller ==
    \/ AddFile
    \/ File
    \/ Build
    \/ GenerateAsync
    \/ CallerWrite

SpecCaller == Init /\ [][NextCaller]_vars

\* The writer, and the reader given its archives.
NextRead ==
    \/ AddFile
    \/ File
    \/ Build
    \/ GenerateAsync
    \/ ParseArchive

SpecRead == Init /\ [][NextRead]_vars

\* The writer, and the reader given its archives with a payload byte changed.
NextCorrupt ==
    \/ AddFile
    \/ File
    \/ Build
    \/ GenerateAsync
    \/ ParseCorrupted

SpecCorrupt == Init /\ [][NextCorrupt]_vars

\* The writer, and the reader given a hand-crafted header.
NextCraft ==
    \/ AddFile
    \/ File
    \/ Build
    \/ GenerateAsync
    \/ ParseCrafted

SpecCraft == Init /\ [][NextCraft]_vars

\* The writer, and the reader given a local header behind a directory.  The
\* entries in front of it: two names that decode to the same key, and
\* payloads of text and of the bytes of an end-of-central-directory
\* signature.
TrailNames == { <<97>>, <<65279, 97>>, <<233>> }
TrailContents ==
    { [kind |-> "string", text |-> <<233>>],
      [kind |-> "Uint8Array", bytes |-> <<80, 75, 5, 6>>, byteOffset |-> 0, length |-> 4] }

AddFileTrail == AddFileOf(TrailNames, TrailContents)

FileTrail == FileOf(TrailNames, TrailContents)

NextTrail ==
    \/ AddFileTrail
    \/ FileTrail
    \/ Build
    \/ GenerateAsync
    \/ ParseTrailing

SpecTrail == Init /\ [][NextTrail]_vars

\* The writer, and the reader, step by step, given a padded archive.
PadNames == { <<97>>, <<233>> }

AddFilePad == AddFileOf(PadNames, TrailContents)

FilePad == FileOf(PadNames, TrailContents)

NextPad ==
    \/ NotScanning /\ AddFilePad
    \/ NotScanning /\ FilePad
    \/ NotScanning /\ Build
    \/ NotScanning /\ GenerateAsync
    \/ StartPadded
    \/ ScanStep

SpecPad == Init /\ [][NextPad]_vars

\* The writer, and the reader given an entry that fails some of its checks.
NextChecked ==
    \/ AddFileTrail
    \/ FileTrail
    \/ Build
    \/ GenerateAsync
    \/ ParseChecked

SpecChecked == Init /\ [][NextChecked]_vars

\* The reader alone, step by step, on buffers a caller puts together from
\* up to MaxChunks pieces: each signature alone, a whole entry without name
\* or payload, a whole entry "a" with two bytes of extra field and no
\* payload, an entry "a" whose payload of one byte disagrees with its size
\* field, a header of a compressed entry, and the single byte "P".
Chunks ==
    { SetUint32W(ZIP_LOCAL_FILE_HEADER_SIGNATURE),
      SetUint32W(ZIP_CENTRAL_DIR_SIGNATURE),
      SetUint32W(ZIP_END_CENTRAL_DIR_SIGNATURE),
      CraftedHeader(Crafted(0, <<0, 0>>, <<0, 0>>, <<0, 0>>, 0, 0, 30), 30),
      CraftedHeader(Crafted(0, <<0, 0>>, <<0, 0>>, <<0, 0>>, 1, 2, 30), 30)
          \o <<97, 0, 0>>,
      CraftedHeader(Crafted(0, <<59575, 48707>>, <<0, 1>>, <<0, 2>>, 1, 0, 30), 30)
          \o <<97, 97>>,
      CraftedHeader(Crafted(8, <<0, 0>>, <<0, 0>>, <<0, 0>>, 0, 0, 30), 30),
      <<80>> }

RECURSIVE Buffers(_)
Buffers(n) ==
    IF n = 0 THEN {<<>>}
    ELSE Buffers(n - 1) \cup {b \o c : b \in Buffers(n - 1), c \in Chunks}

InitScan ==
    /\ builder = "generate"
    /\ now \in {d \in Dates : d.year = 1975}
    /\ entries = <<>>
    /\ heap = <<>>
    /\ writes = 0
    /\ lastOp = "new"
    /\ ret = NoReturn
    /\ input \in Buffers(MaxChunks)
    /\ origin = NoOrigin
    /\ added = <<>>
    /\ NoCli
    /\ NoMail

\* parseStoredZip(input) is called.
StartScan ==
    /\ ret = NoReturn
    /\ ret' = Scanning
    /\ lastOp' = "parseStoredZip"
    /\ origin' = [kind |-> "buffer"]
    /\ UNCHANGED <<cliVars, mailVars,
                   builder, now, entries, heap, writes, input, added>>

NextScan ==
    \/ StartScan
    \/ ScanStep

SpecScan == InitScan /\ [][NextScan]_vars

\* A call that has started runs on: the loop is ordinary sequential code.
SpecScanRuns == SpecScan /\ WF_vars(ScanStep)

\* The header writers alone, on names that are one ASCII character
\* repeated: their UTF-8 encoding is as many bytes, one byte, just below, at
\* and above the 65535 bytes a 16-bit field counts, and 255 and 256 bytes
\* above 65536.  The state keeps a name as its character and length, and of
\* a header its fixed part, its length, and the length and the distinct
\* bytes of what follows the fixed part.
NameLengths == {1, 65535, 65536, 65537, 65791, 65792}
LongNames == { [length |-> n, char |-> c] : n \in NameLengths, c \in {97, 122} }

\* textEncoder.encode(name) for such a name.
EncodeRepeated(name) == [k \in 1..name.length |-> name.char]

InitHeaders ==
    /\ builder \in {"build", "generate"}
    /\ now \in Dates
    /\ entries = <<>>
    /\ heap = <<>>
    /\ writes = 0
    /\ lastOp = "new"
    /\ ret = NoReturn
    /\ input \in LongNames
    /\ origin = NoOrigin
    /\ added = <<>>
    /\ NoCli
    /\ NoMail

\* The entry addFile makes for the name of the input and no contents.
EntryOfAddFile ==
    [name |-> input, data |-> [buf |-> 1, byteOffset |-> 0, length |-> 0],
     crc32 |-> crc32A(<<>>), modTime |-> toDosTime(now).time,
     modDate |-> toDosTime(now).date, offset |-> 0]

\* The entry file makes for the name of the input and no content.
EntryOfFile ==
    [name |-> input, data |-> [buf |-> 1, byteOffset |-> 0, length |-> 0],
     crc |-> crc32(<<>>), size |-> 0, offset |-> 0,
     dosDate |-> toDosDateTime(now).dosDate, dosTime |-> toDosDateTime(now).dosTime]

\* One of the four header writers has written `header`, whose fixed part is
\* `fixed` bytes long.
WriteHeader(op, header, fixed) ==
    /\ ret' = [kind |-> "header",
               fixed |-> SubSeq(header, 1, fixed),
               length |-> Len(header),
               rest |-> [length |-> Len(header) - fixed,
                         bytes |-> {header[k] : k \in (fixed + 1)..Len(header)}]]
    /\ lastOp' = op
    /\ UNCHANGED <<cliVars, mailVars,
                   builder, now, entries, heap, writes, input, origin, added>>

WriteLocalFileHeader ==
    /\ builder = "build"
    /\ WriteHeader("writeLocalFileHeader",
                   writeLocalFileHeader(EntryOfAddFile, EncodeRepeated(input)), 30)

WriteCentralDirectoryHeader ==
    /\ builder = "build"
    /\ WriteHeader("writeCentralDirectoryHeader",
                   writeCentralDirectoryHeader(EntryOfAddFile, EncodeRepeated(input)), 46)

WriteLocalSegmentHeader ==
    /\ builder = "generate"
    /\ WriteHeader("buildLocalSegments",
                   LocalSegmentHeader(EntryOfFile, EncodeRepeated(input)), 30)

WriteCentralHeader ==
    /\ builder = "generate"
    /\ WriteHeader("buildCentralDirectory",
                   CentralDirectoryHeader(EntryOfFile, EncodeRepeated(input)), 46)

NextHeaders ==
    \/ WriteLocalFileHeader
    \/ WriteCentralDirectoryHeader
    \/ WriteLocalSegmentHeader
    \/ WriteCentralHeader

SpecHeaders == InitHeaders /\ [][NextHeaders]_vars

\* The writer, and the reader, step by step, given its archives: entries
\* whose payloads hold the bytes of each signature, contents the caller may
\* write into, and names too long for the name-length field.
SignedContents ==
    { [kind |-> "string", text |-> <<80, 75, 3, 4>>],
      [kind |-> "string", text |-> <<80, 75, 1, 2>>],
      [kind |-> "ArrayBuffer", bytes |-> <<80, 75, 5, 6>>, byteOffset |-> 0,
       length |-> 4] }

FileSigned == FileOf(PadNames, SignedContents)

\* A new ZipBuilder at one time of the clock.
InitArchive ==
    /\ Init
    /\ builder = "generate"
    /\ now.year = 2024

NextArchive ==
    \/ NotScanning /\ FileSigned
    \/ NotScanning /\ GenerateAsync
    \/ NotScanning /\ CallerWrite
    \/ StartArchive
    \/ StartLongNamed
    \/ ScanStep

SpecArchive == InitArchive /\ [][NextArchive]_vars

\* ------------------------------------------------------------------------
\* The CLI's wait command (src/packages/cli/src/program.ts, lines 175-198).
\* Number.parseInt(cmdOptions.timeout, 10) * 1000 with the option's text a
\* number of seconds, or no number at all.
\* A JavaScript number is an integer here, or NaN.
NaN == [nan |-> TRUE, value |-> 0]
Number(n) == [nan |-> FALSE, value |-> n]
TimeoutOptions == {"abc", "0", "1", "4"}
ParseInt(text) ==
    IF text = "0" THEN Number(0)
    ELSE IF text = "1" THEN Number(1)
    ELSE IF text = "4" THEN Number(4)
    ELSE NaN
ParseTimeout(option) ==
    IF ParseInt(option).nan THEN NaN ELSE Number(ParseInt(option).value * 1000)

\* The deadline (line 182): Date.now() + NaN is NaN.
Deadline(start, timeout) ==
    IF timeout.nan THEN NaN ELSE Number(start + timeout.value)

\* The loop condition with <= for <.
BeforeDeadline_OrAt(time, deadline) == ~deadline.nan /\ time <= deadline.value

\* The loop condition Date.now() < deadline (line 185): false for NaN.
BeforeDeadline(time, deadline) == ~deadline.nan /\ time < deadline.value

Timeout == "Timeout reached while waiting for outbox to drain."

\* The top of the while loop (line 185), reached when connect() or the
\* timer's promise resolves: the next poll is sent (line 186), or the error
\* is thrown (line 196).
LoopTop ==
    IF BeforeDeadline(clock, wait.deadline)
    THEN wait' = [wait EXCEPT !.pc = "polling", !.polls = @ + 1, !.polledAt = clock]
    ELSE wait' = [wait EXCEPT !.pc = "failed", !.error = Timeout]

InitWait ==
    /\ builder = "generate"
    /\ now \in {d \in Dates : d.year = 1975}
    /\ entries = <<>>
    /\ heap = <<>>
    /\ writes = 0
    /\ lastOp = "new"
    /\ ret = NoReturn
    /\ input = <<>>
    /\ origin = NoOrigin
    /\ added = <<>>
    /\ clock \in {0, 1500}
    /\ wait = [pc |-> "idle"]
    /\ queued \in 0..MaxQueued
    /\ NoMail

\* The wait command is run with --timeout <option> (lines 179-184); `polls`
\* counts the calls of listMessages, `busy` those that returned messages.
WaitCommand ==
    /\ wait.pc = "idle"
    /\ \E option \in TimeoutOptions :
         wait' = [pc |-> "connecting", option |-> option, start |-> clock,
                  deadline |-> Deadline(clock, ParseTimeout(option)),
                  polls |-> 0, busy |-> 0, polledAt |-> 0, wakeAt |-> 0,
                  console |-> <<>>, error |-> ""]
    /\ UNCHANGED <<builder, now, entries, heap, writes, lastOp, ret, input, origin,
                   added, clock, queued, mailVars>>

\* transport.connect() resolves (withTransport, lines 55-62) and the handler
\* reaches its loop.
Connected ==
    /\ wait.pc = "connecting"
    /\ LoopTop
    /\ UNCHANGED <<builder, now, entries, heap, writes, lastOp, ret, input, origin,
                   added, clock, queued, mailVars>>

\* listMessages('outbox') resolves with the messages queued now (lines
\* 186-193): the command prints and ends, or prints and sets its timer.
ListMessagesReturns ==
    /\ wait.pc = "polling"
    /\ wait' = IF queued = 0
               THEN [wait EXCEPT !.pc = "done",
                                 !.console = Append(@, "Outbox is empty.")]
               ELSE [wait EXCEPT !.pc = "sleeping", !.busy = @ + 1,
                                 !.wakeAt = clock + 2000,
                                 !.console = Append(@, "Outbox contains messages.")]
    /\ UNCHANGED <<builder, now, entries, heap, writes, lastOp, ret, input, origin,
                   added, clock, queued, mailVars>>

\* The timer of line 193 fires, at its time or later, and the loop goes on.
TimerFires ==
    /\ wait.pc = "sleeping"
    /\ clock >= wait.wakeAt
    /\ LoopTop
    /\ UNCHANGED <<builder, now, entries, heap, writes, lastOp, ret, input, origin,
                   added, clock, queued, mailVars>>

\* Time passes while the command awaits a promise.
Tick ==
    /\ wait.pc \in {"connecting", "polling", "sleeping"}
    /\ clock < MaxClock
    /\ \E ms \in {500, 2000} : clock' = clock + ms
    /\ UNCHANGED <<builder, now, entries, heap, writes, lastOp, ret, input, origin,
                   added, wait, queued, mailVars>>

\* The outbox is flushed, or a message is queued, by someone else.
OutboxChanges ==
    /\ wait.pc \in {"connecting", "polling", "sleeping"}
    /\ \E n \in 0..MaxQueued : n # queued /\ queued' = n
    /\ UNCHANGED <<builder, now, entries, heap, writes, lastOp, ret, input, origin,
                   added, clock, wait, mailVars>>

NextWait ==
    \/ WaitCommand
    \/ Connected
    \/ ListMessagesReturns
    \/ TimerFires
    \/ Tick
    \/ OutboxChanges

SpecWait == InitWait /\ [][NextWait]_vars

\* ------------------------------------------------------------------------
\* The inline transport (part_035).  A Map is kept as the sequence of its
\* values in insertion order; of a folder the id and unreadCount, of a
\* message the id, folder and status of its envelope.
folderIdSchema == {"inbox", "outbox", "failed", "archive", "followUp"}
messageStatusSchema == {"draft", "queued", "sent", "delivered", "read", "failed"}

inlineFolders ==
    << [id |-> "inbox", unreadCount |-> 1], [id |-> "outbox", unreadCount |-> 0],
       [id |-> "failed", unreadCount |-> 0], [id |-> "archive", unreadCount |-> 0],
       [id |-> "followUp", unreadCount |-> 0] >>

\* The id of the welcome message is 0; the other ids are 1..MaxMessages.
inlineMessages == << [id |-> 0, folder |-> "inbox", status |-> "delivered"] >>
MessageIds == 0..MaxMessages

\* Map.prototype.has, get (as a position, 0 without the key), set and
\* delete on such a sequence.
MapHas(map, id) == \E k \in 1..Len(map) : map[k].id = id
MapIndex(map, id) ==
    IF MapHas(map, id) THEN CHOOSE k \in 1..Len(map) : map[k].id = id ELSE 0
MapPut(map, item) ==
    IF MapHas(map, item.id) THEN [map EXCEPT ![MapIndex(map, item.id)] = item]
    ELSE Append(map, item)
MapDelete(map, id) == SelectSeq(map, LAMBDA item : item.id # id)

\* updateUnreadCounts that does not reset the counts first.
RECURSIVE CountUnread(_, _, _)
updateUnreadCounts_NoReset(folders, messages) == CountUnread(folders, messages, 1)

\* The second loop of updateUnreadCounts (lines 254-259), from the i-th
\* message.
CountUnread(folders, messages, i) ==
    IF i > Len(messages) THEN folders
    ELSE LET message == messages[i]
             k == MapIndex(folders, message.folder)
         IN CountUnread(IF k # 0 /\ message.status # "read"
                        THEN [folders EXCEPT ![k].unreadCount = @ + 1]
                        ELSE folders,
                        messages, i + 1)

\* updateUnreadCounts (lines 250-260).
updateUnreadCounts(folders, messages) ==
    CountUnread([k \in DOMAIN folders |-> [folders[k] EXCEPT !.unreadCount = 0]],
                messages, 1)

\* messageEnvelopeSchema.parse succeeds on an envelope whose other fields
\* are well-formed.
EnvelopeParses(envelope) ==
    envelope.folder \in folderIdSchema /\ envelope.status \in messageStatusSchema

\* a ?? b on strings, undefined written "undefined".
Coalesce(a, b) == IF a = "undefined" THEN b ELSE a

\* What randomId() can return: an id no stored message has.
RandomIds == {id \in 1..MaxMessages : ~MapHas(messageState, id)}

NotFound(id) == [kind |-> "error", error |-> "NotFound", id |-> id]
Resolved == [kind |-> "undefined"]

\* createInlineTransport() has returned (lines 232-262).
InitMail ==
    /\ builder = "generate"
    /\ now \in {d \in Dates : d.year = 1975}
    /\ entries = <<>>
    /\ heap = <<>>
    /\ writes = 0
    /\ lastOp = "createInlineTransport"
    /\ ret = NoReturn
    /\ input = <<>>
    /\ origin = NoOrigin
    /\ added = <<>>
    /\ NoCli
    /\ messageState = inlineMessages
    /\ folderState = updateUnreadCounts(inlineFolders, inlineMessages)

\* folders.listFolders() (lines 265-268).
ListFolders ==
    /\ folderState # <<>>
    /\ folderState' = updateUnreadCounts(folderState, messageState)
    /\ ret' = [kind |-> "folders", folders |-> folderState']
    /\ lastOp' = "listFolders"
    /\ origin' = [kind |-> "call", id |-> 0]
    /\ UNCHANGED <<cliVars, messageState,
                   builder, now, entries, heap, writes, input, added>>

\* messages.getMessage(messageId) (lines 278-284).
GetMessage ==
    /\ folderState # <<>>
    /\ \E messageId \in MessageIds :
         /\ origin' = [kind |-> "call", id |-> messageId]
         /\ ret' = IF ~MapHas(messageState, messageId) THEN NotFound(messageId)
                   ELSE [kind |-> "message",
                         message |-> messageState[MapIndex(messageState, messageId)]]
    /\ lastOp' = "getMessage"
    /\ UNCHANGED <<cliVars, mailVars,
                   builder, now, entries, heap, writes, input, added>>

\* The stored item and the result of a submit or compose whose parse
\* succeeded (lines 298-305, 411-418).
Store(item, op) ==
    /\ messageState' = MapPut(messageState, item)
    /\ folderState' = updateUnreadCounts(folderState, messageState')
    /\ ret' = [kind |-> "submitResult", messageId |-> item.id, status |-> "queued"]
    /\ lastOp' = op
    /\ origin' = [kind |-> "call", id |-> item.id]

\* messages.submitMessage(envelope, content) (lines 285-306): the caller
\* gives an id or none, a folder or none (or one the schema does not know),
\* a status or none, and content the schema accepts or not.
SubmitMessage ==
    /\ folderState # <<>>
    /\ \E given \in BOOLEAN :
         \E id \in (IF given THEN MessageIds ELSE RandomIds) :
            \E folder \in {"undefined", "inbox", "drafts"} :
               \E status \in {"undefined", "read"} :
                  \E contentParses \in BOOLEAN :
                     LET envelope == [id |-> id,
                                      folder |-> Coalesce(folder, "outbox"),
                                      status |-> Coalesce(status, "queued")]
                     IN IF EnvelopeParses(envelope) /\ contentParses
                        THEN Store(envelope, "submitMessage")
                        ELSE /\ ret' = [kind |-> "error", error |-> "ZodError"]
                             /\ lastOp' = "submitMessage"
                             /\ origin' = [kind |-> "call", id |-> id]
                             /\ UNCHANGED mailVars
    /\ UNCHANGED <<cliVars, builder, now, entries, heap, writes, input, added>>

\* compose(payload) (lines 388-419).
Compose ==
    /\ folderState # <<>>
    /\ \E id \in RandomIds :
         Store([id |-> id, folder |-> "inbox", status |-> "queued"], "compose")
    /\ UNCHANGED <<cliVars, builder, now, entries, heap, writes, input, added>>

\* messages.deleteMessage(messageId) (lines 307-310).
DeleteMessage ==
    /\ folderState # <<>>
    /\ \E messageId \in MessageIds :
         /\ messageState' = MapDelete(messageState, messageId)
         /\ origin' = [kind |-> "call", id |-> messageId]
    /\ folderState' = updateUnreadCounts(folderState, messageState')
    /\ ret' = Resolved
    /\ lastOp' = "deleteMessage"
    /\ UNCHANGED <<cliVars, builder, now, entries, heap, writes, input, added>>

\* The body of moveMessage (lines 312-318), called as `op`.
MoveTo(messageId, folderId, op) ==
    /\ IF ~MapHas(messageState, messageId)
       THEN /\ ret' = NotFound(messageId)
            /\ UNCHANGED mailVars
       ELSE /\ messageState' =
                  [messageState EXCEPT ![MapIndex(messageState, messageId)].folder
                                           = folderId]
            /\ folderState' = updateUnreadCounts(folderState, messageState')
            /\ ret' = Resolved
    /\ lastOp' = op
    /\ origin' = [kind |-> "call", id |-> messageId]

\* messages.moveMessage(messageId, folderId) (lines 311-319); the folder id
\* is cast, not checked.
MoveMessage ==
    /\ folderState # <<>>
    /\ \E messageId \in MessageIds :
         \E folderId \in {"inbox", "outbox", "drafts"} :
            MoveTo(messageId, folderId, "moveMessage")
    /\ UNCHANGED <<cliVars, builder, now, entries, heap, writes, input, added>>

\* messages.archiveMessage(messageId) (lines 320-322).
ArchiveMessage ==
    /\ folderState # <<>>
    /\ \E messageId \in MessageIds : MoveTo(messageId, "archive", "archiveMessage")
    /\ UNCHANGED <<cliVars, builder, now, entries, heap, writes, input, added>>

NextMail ==
    \/ ListFolders
    \/ GetMessage
    \/ SubmitMessage
    \/ Compose
    \/ DeleteMessage
    \/ MoveMessage
    \/ ArchiveMessage

SpecMail == InitMail /\ [][NextMail]_vars

\* The paths a caller passes: plain, a run of backslashes first, two slashes
\* first, a run of backslashes inside, one backslash alone, and a slash
\* followed by a backslash.
Paths ==
    { <<97>>, <<92, 92, 97>>, <<47, 47, 97>>, <<97, 92, 92, 98>>, <<92>>,
      <<47, 92, 97>> }

\* Contents for them: a string, and a view of part of a caller's buffer.
PathContents == {c \in Contents : c.kind \in {"string", "Uint8Array"}}

AddFilePath == AddFileOf(Paths, PathContents)
FilePath == FileOf(Paths, PathContents)

\* The writer given paths with separators.
NextPaths ==
    \/ AddFilePath
    \/ FilePath
    \/ Build
    \/ GenerateAsync

SpecPaths == Init /\ [][NextPaths]_vars

\* The byte sequences crc32 is given: the empty one, every single byte,
\* every sequence of 2..MaxCrcLen bytes out of 0, 1, 128 and 255, and the
\* ASCII letters "abc".
RECURSIVE SeqsOf(_, _)
SeqsOf(alphabet, n) ==
    IF n = 0 THEN {<<>>}
    ELSE {Append(q, b) : q \in SeqsOf(alphabet, n - 1), b \in alphabet}

CrcInputs ==
    {<<>>} \cup {<<b>> : b \in 0..255}
    \cup UNION {SeqsOf({0, 1, 128, 255}, n) : n \in 2..MaxCrcLen}
    \cup {<<97, 98, 99>>}

InitCrc ==
    /\ builder \in {"build", "generate"}
    /\ now \in {d \in Dates : d.year = 1975}
    /\ entries = <<>>
    /\ heap = <<>>
    /\ writes = 0
    /\ lastOp = "new"
    /\ ret = NoReturn
    /\ input \in CrcInputs
    /\ origin = NoOrigin
    /\ added = <<>>
    /\ NoCli
    /\ NoMail

\* crc32(data) of the addFile/build half, data a Uint8Array of the input.
CallCrc32A ==
    /\ builder = "build"
    /\ ret' = [kind |-> "uint32", value |-> crc32A(input)]
    /\ lastOp' = "crc32"
    /\ UNCHANGED <<cliVars, mailVars,
                   builder, now, entries, heap, writes, input, origin, added>>

\* crc32(data) of the file/generateAsync half and the reader.
CallCrc32 ==
    /\ builder = "generate"
    /\ ret' = [kind |-> "uint32", value |-> crc32(input)]
    /\ lastOp' = "crc32"
    /\ UNCHANGED <<cliVars, mailVars,
                   builder, now, entries, heap, writes, input, origin, added>>

NextCrc ==
    \/ CallCrc32A
    \/ CallCrc32

SpecCrc == InitCrc /\ [][NextCrc]_vars

\* The payloads calculateSha256 is given: the strings "", "abc" and
\* "legacy", and for every length up to MaxShaLen a Uint8Array of that many
\* bytes (the byte at k is k modulo 251) that is a view, from byteOffset 1,
\* of a buffer one byte longer; the 3-byte one also as an ArrayBuffer and
\* through a DataView.
PayloadBytes(n) == [k \in 1..n |-> k % 251]
ShaPayloads ==
    { [kind |-> "string", text |-> <<>>],
      [kind |-> "string", text |-> <<97, 98, 99>>],
      [kind |-> "string", text |-> <<108, 101, 103, 97, 99, 121>>],
      [kind |-> "ArrayBuffer", bytes |-> <<97, 98, 99>>, byteOffset |-> 0, length |-> 3],
      [kind |-> "DataView", bytes |-> <<0, 97, 98, 99, 0>>, byteOffset |-> 1,
       length |-> 3] }
    \cup { [kind |-> "Uint8Array", bytes |-> <<0>> \o PayloadBytes(n),
            byteOffset |-> 1, length |-> n] : n \in 0..MaxShaLen }

InitSha ==
    /\ builder = "generate"
    /\ now \in {d \in Dates : d.year = 1975}
    /\ entries = <<>>
    /\ heap = <<>>
    /\ writes = 0
    /\ lastOp = "new"
    /\ ret = NoReturn
    /\ input \in ShaPayloads
    /\ origin = NoOrigin
    /\ added = <<>>
    /\ NoCli
    /\ NoMail

\* calculateSha256(payload).
CalculateSha256 ==
    /\ ret' = [kind |-> "string", value |-> calculateSha256(input)]
    /\ lastOp' = "calculateSha256"
    /\ UNCHANGED <<cliVars, mailVars,
                   builder, now, entries, heap, writes, input, origin, added>>

NextSha ==
    \/ CalculateSha256

SpecSha == InitSha /\ [][NextSha]_vars

\* The payloads the accessors are given: the two JSON documents of a
\* session archive, the literal null, an empty payload, an unfinished
\* object, a document followed by a stray character, a document behind a
\* byte order mark, a string with a two-byte character between white space,
\* and a byte that is not UTF-8.
AccessPayloads ==
    { <<123, 34, 97, 34, 58, 49, 125>>, <<91, 93>>, <<110, 117, 108, 108>>,
      <<>>, <<123>>, <<91, 93, 32, 120>>, <<239, 187, 191, 91, 93>>,
      <<32, 34, 195, 169, 34, 10>>, <<255>> }
MapNames == {"metadata.json", "trace.json"}
AskedNames == MapNames \cup {"missing.json"}
AccessMaps == UNION { [names -> AccessPayloads] : names \in SUBSET MapNames }

InitAccess ==
    /\ builder = "generate"
    /\ now \in {d \in Dates : d.year = 1975}
    /\ entries = <<>>
    /\ heap = <<>>
    /\ writes = 0
    /\ lastOp = "new"
    /\ ret = NoReturn
    /\ input \in AccessMaps
    /\ origin = NoOrigin
    /\ added = <<>>
    /\ NoCli
    /\ NoMail

\* readZipText(entries, name) on the map of the input.
ReadZipText ==
    \E name \in AskedNames :
        /\ ret' = readZipText(input, name)
        /\ lastOp' = "readZipText"
        /\ origin' = [kind |-> "lookup", name |-> name]
        /\ UNCHANGED <<cliVars, mailVars,
                       builder, now, entries, heap, writes, input, added>>

\* readZipJson(entries, name) on the map of the input.
ReadZipJson ==
    \E name \in AskedNames :
        /\ ret' = readZipJson(input, name)
        /\ lastOp' = "readZipJson"
        /\ origin' = [kind |-> "lookup", name |-> name]
        /\ UNCHANGED <<cliVars, mailVars,
                       builder, now, entries, heap, writes, input, added>>

NextAccess ==
    \/ ReadZipText
    \/ ReadZipJson

SpecAccess == InitAccess /\ [][NextAccess]_vars

\* The dates the DOS encoders are given: years below, at and above both
\* limits of the range; the first, a middle and the last month, day and
\* second; on a host whose local time is UTC or three hours ahead of it.
DosYears == {-1, 1969, 1975, 1979, 1980, 1981, 2024, 2107, 2108, 2200, 275760}
DosDates ==
    { [year |-> y, month |-> mo, day |-> d, hours |-> t[1], minutes |-> t[2],
       seconds |-> t[3], zone |-> z] :
         y \in DosYears, mo \in {0, 5, 11}, d \in {1, 15, 31},
         t \in {<<0, 0, 0>>, <<12, 30, 31>>, <<23, 59, 59>>}, z \in {0, 3} }

InitDos ==
    /\ builder \in {"build", "generate"}
    /\ now \in DosDates
    /\ entries = <<>>
    /\ heap = <<>>
    /\ writes = 0
    /\ lastOp = "new"
    /\ ret = NoReturn
    /\ input = <<>>
    /\ origin = NoOrigin
    /\ added = <<>>
    /\ NoCli
    /\ NoMail

\* toDosTime(new Date()) of the addFile/build half.
CallToDosTime ==
    /\ builder = "build"
    /\ LET r == toDosTime(now)
       IN ret' = [kind |-> "dos", date |-> r.date, time |-> r.time]
    /\ lastOp' = "toDosTime"
    /\ UNCHANGED <<cliVars, mailVars,
                   builder, now, entries, heap, writes, input, origin, added>>

\* toDosDateTime(new Date()) of the file/generateAsync half.
CallToDosDateTime ==
    /\ builder = "generate"
    /\ LET r == toDosDateTime(now)
       IN ret' = [kind |-> "dos", date |-> r.dosDate, time |-> r.dosTime]
    /\ lastOp' = "toDosDateTime"
    /\ UNCHANGED <<cliVars, mailVars,
                   builder, now, entries, heap, writes, input, origin, added>>

NextDos ==
    \/ CallToDosTime
    \/ CallToDosDateTime

SpecDos == InitDos /\ [][NextDos]_vars

\* Everything together.
Next ==
    \/ AddFile
    \/ File
    \/ Build
    \/ GenerateAsync
    \/ CallerWrite
    \/ ParseArchive
    \/ ParseCorrupted
    \/ ParseCrafted

Spec == Init /\ [][Next]_vars
\* ------------------------------------------------------------------------
\* What the claims say.

Builds == {"build", "generateAsync"}
Built == lastOp \in Builds /\ ret.kind = "buffer"
ParsedArchive == lastOp = "parseStoredZip" /\ origin.kind = "archive"

\* The name the writer stores for the i-th add call.
StoredName(i) == entries[i].name
StoredNames == {StoredName(i) : i \in 1..Len(entries)}
RoundTrips(name) == Utf8Decode(Utf8Encode(name)) = name
PairwiseDistinct(seq) ==
    \A i, j \in 1..Len(seq) : i # j => seq[i] # seq[j]

\* C1, as claimed: parsing a serialized archive whose added names are
\* pairwise distinct gives a map whose keys are exactly the added names and
\* whose values are the added payloads.
C1_RoundTripAddedNames ==
    (ParsedArchive /\ PairwiseDistinct([i \in 1..Len(added) |-> added[i].name]))
    => /\ ret.kind = "map"
       /\ DOMAIN ret.entries = {added[i].name : i \in 1..Len(added)}
       /\ \A i \in 1..Len(added) : ret.entries[added[i].name] = added[i].payload

\* C1, amended: when the names the writer stored (for addFile the normalized
\* path) are pairwise distinct and survive UTF-8 encoding and decoding,
\* parsing the serialized archive gives a map whose keys are exactly the
\* stored names and whose values are the added payloads.
C1_RoundTripStoredNames ==
    (/\ ParsedArchive
     /\ Len(entries) = Len(added)
     /\ PairwiseDistinct([i \in 1..Len(entries) |-> StoredName(i)])
     /\ \A i \in 1..Len(entries) : RoundTrips(StoredName(i)))
    => /\ ret.kind = "map"
       /\ DOMAIN ret.entries = StoredNames
       /\ \A i \in 1..Len(added) : ret.entries[StoredName(i)] = added[i].payload

\* Two entries with distinct names, one of two UTF-8 bytes, and distinct
\* payloads, one of them empty, came back.
C1_Witness ==
    /\ ParsedArchive
    /\ ret.kind = "map"
    /\ Len(added) = 2
    /\ StoredName(1) = <<233>>
    /\ StoredName(2) = <<97>>
    /\ added[1].payload = <<>>
    /\ added[2].payload # <<>>
    /\ DOMAIN ret.entries = {<<233>>, <<97>>}

\* C2: parsing an archive with one payload byte of entry i changed raises
\* the CRC-mismatch error for entry i, under the name the archive stores for
\* it as the reader decodes it.
C2_CorruptionDetected ==
    (lastOp = "parseStoredZip" /\ origin.kind = "corrupted")
    => ret = Failure("CrcMismatch",
                     Utf8Decode(Utf8Encode(StoredName(origin.entry))))

\* The second entry's payload was changed, the first passed its checks, and
\* the error names the second.
C2_Witness ==
    /\ lastOp = "parseStoredZip"
    /\ origin.kind = "corrupted"
    /\ origin.entry = 2
    /\ StoredName(1) # StoredName(2)
    /\ ret.kind = "error"
    /\ ret.error = "CrcMismatch"
    /\ ret.name = StoredName(2)

\* C3: a local header whose method field is not 0, reached by the scan,
\* makes the reader raise the unsupported-compression error, whatever its
\* other fields hold.
C3_UnsupportedMethodRejected ==
    (lastOp = "parseStoredZip" /\ origin.kind = "crafted")
    => ret = Failure("UnsupportedCompression", <<>>)

\* A header with method 256 (low byte 0) after one valid entry was rejected.
C3_Witness ==
    /\ lastOp = "parseStoredZip"
    /\ origin.kind = "crafted"
    /\ origin.method = 256
    /\ Len(entries) = 1
    /\ Len(input) > 32
    /\ ret.kind = "error"
    /\ ret.error = "UnsupportedCompression"

\* ------------------------------------------------------------------------
\* Reading the layout back from the bytes of an archive, as a ZIP reader that
\* follows the length fields would.

\* Where the i-th local segment starts (0-based), the first at 0.
RECURSIVE LocalStart(_, _)
LocalStart(bytes, i) ==
    IF i = 1 THEN 0
    ELSE LET p == LocalStart(bytes, i - 1)
         IN p + 30 + GetUint16(bytes, p + 26) + GetUint16(bytes, p + 28)
            + GetUint16(bytes, p + 18)

\* Where the i-th record starts in a directory that starts at `from`.
RECURSIVE CentralRecordStart(_, _, _)
CentralRecordStart(bytes, from, i) ==
    IF i = 1 THEN from
    ELSE LET p == CentralRecordStart(bytes, from, i - 1)
         IN p + 46 + GetUint16(bytes, p + 28) + GetUint16(bytes, p + 30)
            + GetUint16(bytes, p + 32)

HasSignature(bytes, at, signature) ==
    at + 4 <= Len(bytes) /\ SubSeq(bytes, at + 1, at + 4) = SetUint32W(signature)

\* How many local segments follow each other from `at`, and how many
\* directory records.
RECURSIVE CountLocal(_, _)
CountLocal(bytes, at) ==
    IF HasSignature(bytes, at, ZIP_LOCAL_FILE_HEADER_SIGNATURE) /\ at + 30 <= Len(bytes)
    THEN 1 + CountLocal(bytes, at + 30 + GetUint16(bytes, at + 26)
                               + GetUint16(bytes, at + 28) + GetUint16(bytes, at + 18))
    ELSE 0

RECURSIVE CountCentral(_, _)
CountCentral(bytes, at) ==
    IF HasSignature(bytes, at, ZIP_CENTRAL_DIR_SIGNATURE) /\ at + 46 <= Len(bytes)
    THEN 1 + CountCentral(bytes, at + 46 + GetUint16(bytes, at + 28)
                                 + GetUint16(bytes, at + 30) + GetUint16(bytes, at + 32))
    ELSE 0

\* The UTF-8 length of a string, counted per code unit.
RECURSIVE Utf8Length(_)
Utf8Length(str) ==
    IF str = <<>> THEN 0
    ELSE LET c == Head(str) IN
         IF c < 128 THEN 1 + Utf8Length(Tail(str))
         ELSE IF c < 2048 THEN 2 + Utf8Length(Tail(str))
         ELSE IF IsHigh(c) /\ Len(str) >= 2 /\ IsLow(str[2])
              THEN 4 + Utf8Length(Tail(Tail(str)))
         ELSE 3 + Utf8Length(Tail(str))

\* The lengths the claims sum: 30 + name + payload and 46 + name, over the
\* entries before the i-th.
RECURSIVE LocalLengthBefore(_)
LocalLengthBefore(i) ==
    IF i <= 1 THEN 0
    ELSE LocalLengthBefore(i - 1) + 30 + Utf8Length(StoredName(i - 1))
         + Len(added[i - 1].payload)

RECURSIVE CentralLengthBefore(_)
CentralLengthBefore(i) ==
    IF i <= 1 THEN 0
    ELSE CentralLengthBefore(i - 1) + 46 + Utf8Length(StoredName(i - 1))

\* C4: in a built archive the offset field of the i-th directory record is
\* the position where the i-th local header starts, which is the summed
\* length of the local segments before it.
C4_DirectoryOffsets ==
    Built =>
      \A i \in 1..Len(added) :
         LET b == ret.bytes
             loc == LocalStart(b, i)
             cd == CentralRecordStart(b, CentralStart(b), i)
         IN /\ HasSignature(b, loc, ZIP_LOCAL_FILE_HEADER_SIGNATURE)
            /\ HasSignature(b, cd, ZIP_CENTRAL_DIR_SIGNATURE)
            /\ GetUint32(b, cd + 42) = U32(loc)
            /\ loc = LocalLengthBefore(i)

\* The second record of a built archive holds a non-zero offset.
C4_Witness ==
    /\ Built
    /\ Len(added) = 2
    /\ LocalStart(ret.bytes, 2) > 30
    /\ GetUint32(ret.bytes,
                 CentralRecordStart(ret.bytes, CentralStart(ret.bytes), 2) + 42)
       = U32(LocalStart(ret.bytes, 2))

\* C5: a built archive is its local segments, then its directory records,
\* then a 22-byte end record whose offset field is the length of the local
\* segments and whose size field is the length of the directory.
C5_EndRecord ==
    Built =>
      LET b == ret.bytes
          n == Len(added)
          localLength == LocalLengthBefore(n + 1)
          centralLength == CentralLengthBefore(n + 1)
          end == Len(b) - 22
      IN /\ \A i \in 1..n :
              /\ HasSignature(b, LocalStart(b, i), ZIP_LOCAL_FILE_HEADER_SIGNATURE)
              /\ HasSignature(b, CentralRecordStart(b, localLength, i),
                              ZIP_CENTRAL_DIR_SIGNATURE)
         /\ LocalStart(b, n + 1) = localLength
         /\ CentralRecordStart(b, localLength, n + 1) = localLength + centralLength
         /\ end = localLength + centralLength
         /\ HasSignature(b, end, ZIP_END_CENTRAL_DIR_SIGNATURE)
         /\ GetUint32(b, end + 16) = U32(localLength)
         /\ GetUint32(b, end + 12) = U32(centralLength)

\* A built archive of two entries whose directory is not as long as its
\* local segments.
C5_Witness ==
    /\ Built
    /\ Len(added) = 2
    /\ GetUint32(ret.bytes, Len(ret.bytes) - 22 + 16)
       # GetUint32(ret.bytes, Len(ret.bytes) - 22 + 12)
    /\ GetUint16(ret.bytes, Len(ret.bytes) - 22 + 16) = LocalLengthBefore(3)

C7_SizeFormula ==
    Built =>
      Len(ret.bytes) = LocalLengthBefore(Len(added) + 1)
                       + CentralLengthBefore(Len(added) + 1) + 22

\* A built archive with a name whose UTF-8 length is not its string length.
C7_Witness ==
    /\ Built
    /\ Len(added) = 2
    /\ Utf8Length(StoredName(1)) > Len(StoredName(1))
    /\ Len(added[2].payload) > 0
    /\ Len(ret.bytes) > 22 + 76 + 76

\* The name the writer is to store for the i-th add call: as given for file,
\* normalized for addFile.
ExpectedName(i) ==
    IF builder = "build" THEN NormalizeName(added[i].name) ELSE added[i].name

LocalName(bytes, i) ==
    LET p == LocalStart(bytes, i)
    IN SubSeq(bytes, p + 31, p + 30 + GetUint16(bytes, p + 26))
LocalPayload(bytes, i) ==
    LET p == LocalStart(bytes, i) + 30 + GetUint16(bytes, LocalStart(bytes, i) + 26)
                + GetUint16(bytes, LocalStart(bytes, i) + 28)
    IN SubSeq(bytes, p + 1, p + GetUint16(bytes, LocalStart(bytes, i) + 18))
CentralName(bytes, i) ==
    LET p == CentralRecordStart(bytes, CentralStart(bytes), i)
    IN SubSeq(bytes, p + 47, p + 46 + GetUint16(bytes, p + 28))

\* C8: a built archive holds one local segment and one directory record per
\* add call, in the order of the calls, equal names included.
C8_OrderAndDuplicates ==
    Built =>
      /\ CountLocal(ret.bytes, 0) = Len(added)
      /\ CountCentral(ret.bytes, CentralStart(ret.bytes)) = Len(added)
      /\ \A i \in 1..Len(added) :
            /\ LocalName(ret.bytes, i) = Utf8Encode(ExpectedName(i))
            /\ LocalPayload(ret.bytes, i) = added[i].payload
            /\ CentralName(ret.bytes, i) = Utf8Encode(ExpectedName(i))

\* Two adds under one name with different payloads, both in the archive, in
\* the order added.
C8_Witness ==
    /\ Built
    /\ Len(added) = 2
    /\ ExpectedName(1) = ExpectedName(2)
    /\ added[1].payload # added[2].payload
    /\ LocalPayload(ret.bytes, 1) = added[1].payload
    /\ LocalPayload(ret.bytes, 2) = added[2].payload
    /\ CentralName(ret.bytes, 2) = CentralName(ret.bytes, 1)

\* ------------------------------------------------------------------------
\* The entry list as a caller sees it: per entry its name and the payload
\* bytes its data shows.
EntryList(es, h) ==
    [i \in 1..Len(es) |-> [name |-> es[i].name, payload |-> ViewBytes(h, es[i].data)]]

\* C9: a build or generateAsync call leaves the entry list (count, order,
\* names, payloads) and every buffer of the heap as they were and returns a
\* buffer that did not exist before; when the call before it was a build too,
\* with no add in between, it returns the same bytes in another buffer; and
\* the archive it returns holds every entry added so far, those added after
\* an earlier build included, in the order added.
C9_BuildIsPureRead ==
    [][lastOp' \in Builds =>
         /\ EntryList(entries', heap') = EntryList(entries, heap)
         /\ heap' = heap
         /\ ret'.kind = "buffer"
         /\ ret'.buf \notin DOMAIN heap
         /\ Built => (ret'.bytes = ret.bytes /\ ret'.buf # ret.buf)
         /\ CountLocal(ret'.bytes, 0) = Len(entries)
         /\ \A i \in 1..Len(entries) :
               /\ LocalName(ret'.bytes, i) = Utf8Encode(entries[i].name)
               /\ LocalPayload(ret'.bytes, i) = ViewBytes(heap, entries[i].data)
    ]_vars

\* The second of two consecutive builds of two entries, the second entry at
\* an offset that is not 0: each add allocates one buffer, so the first build
\* returns buffer Len(entries) + 1 and only a build straight after it
\* returns Len(entries) + 2.
C9_Witness ==
    /\ Built
    /\ Len(entries) = 2
    /\ ret.buf = Len(entries) + 2
    /\ entries[2].offset > 0
    /\ CountLocal(ret.bytes, 0) = 2

\* C10, as claimed: the payload that a built archive holds for an entry is
\* the payload the caller added, and the CRC-32 stored in its local header is
\* the CRC-32 of that payload, whatever the caller wrote into its buffers
\* between the add and the build.
C10_EmittedPayloadIsChecksummed ==
    Built =>
      \A i \in 1..Len(added) :
         /\ LocalPayload(ret.bytes, i) = added[i].payload
         /\ GetUint32(ret.bytes, LocalStart(ret.bytes, i) + 14)
            = crc32(LocalPayload(ret.bytes, i))

\* ------------------------------------------------------------------------
\* A path with its separators normalized, said without the code's regular
\* expression: a backslash that follows a backslash is dropped, every other
\* backslash becomes '/', everything else stays.
KeptIndices(path) ==
    {i \in 1..Len(path) : path[i] # 92 \/ i = 1 \/ path[i - 1] # 92}
KeptIndex(path, k) ==
    CHOOSE i \in KeptIndices(path) :
        Cardinality({j \in KeptIndices(path) : j < i}) = k - 1
SeparatorsNormalized(path) ==
    [k \in 1..Cardinality(KeptIndices(path)) |->
        IF path[KeptIndex(path, k)] = 92 THEN 47 ELSE path[KeptIndex(path, k)]]
LeadingSlashRemoved(path) ==
    IF Len(path) >= 1 /\ path[1] = 47 THEN SubSeq(path, 2, Len(path)) ELSE path

\* What an add call (addFile or file) does apart from the name it stores:
\* one entry more, the earlier entries and their payloads as they were, the
\* new entry's CRC the CRC-32 of the payload passed, its data and size the
\* payload and its length, its offset 0, and the writer itself returned.
AddAppends ==
    LET n == Len(entries)
        e == entries'[n + 1]
        a == added'[n + 1]
    IN /\ Len(entries') = n + 1
       /\ \A i \in 1..n :
             /\ entries'[i] = entries[i]
             /\ ViewBytes(heap', entries'[i].data) = ViewBytes(heap, entries[i].data)
       /\ (IF lastOp' = "addFile" THEN e.crc32 ELSE e.crc) = crc32(a.payload)
       /\ ViewBytes(heap', e.data) = a.payload
       /\ e.data.length = Len(a.payload)
       /\ (lastOp' = "file" => e.size = Len(a.payload))
       /\ e.offset = 0
       /\ ret' = [kind |-> "this"]
       /\ builder' = builder

RECURSIVE ShiftRegister(_, _)
ShiftRegister(reg, n) ==
    IF n = 0 THEN reg
    ELSE ShiftRegister(IF reg[2] % 2 = 1
                       THEN XorU32(Shr1(reg), <<60856, 33568>>)
                       ELSE Shr1(reg),
                       n - 1)

RECURSIVE BitSerial(_, _)
BitSerial(reg, data) ==
    IF data = <<>> THEN reg
    ELSE BitSerial(ShiftRegister(<<reg[1], BitXor(reg[2], Head(data))>>, 8),
                   Tail(data))

Ieee8023Crc32(data) == XorU32(BitSerial(<<65535, 65535>>, data), <<65535, 65535>>)

CrcReturned == lastOp = "crc32" /\ ret.kind = "uint32"

\* C12: whichever crc32 is called, on whatever bytes, it returns a value in
\* [0, 2^32) that is the IEEE 802.3 CRC-32 of the bytes by bit-serial
\* division, and 0 for the empty sequence.
C12_CrcIsIeee8023 ==
    /\ lastOp = "crc32" => ret.kind = "uint32"
    /\ CrcReturned =>
         /\ ret.value[1] \in 0..65535
         /\ ret.value[2] \in 0..65535
         /\ ret.value = Ieee8023Crc32(input)
         /\ (input = <<>> => ret.value = <<0, 0>>)

\* crc32 of "abc" came back as 0x352441C2, its IEEE 802.3 CRC-32.
C12_Witness ==
    /\ CrcReturned
    /\ input = <<97, 98, 99>>
    /\ ret.value = <<13604, 16834>>

\* ------------------------------------------------------------------------
\* p with bit `bit` of its k-th byte flipped.
FlipBit(p, k, bit) == [p EXCEPT ![k] = BitXor(p[k], 2 ^ bit)]

\* The crc32 the builder of this behaviour calls.
Crc32Called(p) == IF builder = "build" THEN crc32A(p) ELSE crc32(p)

\* C13: the value a crc32 call returned is the value crc32 gives for the same
\* bytes whenever it is called again, and crc32 of the bytes with any single
\* bit flipped differs from it.
C13_CrcStableAndSensitive ==
    CrcReturned =>
      /\ Crc32Called(input) = ret.value
      /\ \A k \in 1..Len(input) :
            \A bit \in 0..7 :
               Crc32Called(FlipBit(input, k, bit)) # ret.value

\* crc32 of "abc" came back, and differs from that of "abC" and of "ab" with
\* the byte 227 (top bit of 'c' flipped) after it.
C13_Witness ==
    /\ CrcReturned
    /\ input = <<97, 98, 99>>
    /\ FlipBit(input, 3, 5) = <<97, 98, 67>>
    /\ FlipBit(input, 3, 7) = <<97, 98, 227>>
    /\ Crc32Called(<<97, 98, 67>>) # ret.value
    /\ Crc32Called(<<97, 98, 227>>) # ret.value

\* ------------------------------------------------------------------------
\* The digests the claims name, as strings of code units.
\* "e3b0c44298fc1c149afbf4c8996fb92427ae41e4649b934ca495991b7852b855"
Sha256OfEmpty ==
    << 101, 51, 98, 48, 99, 52, 52, 50, 57, 56, 102, 99, 49, 99, 49, 52,
       57, 97, 102, 98, 102, 52, 99, 56, 57, 57, 54, 102, 98, 57, 50, 52,
       50, 55, 97, 101, 52, 49, 101, 52, 54, 52, 57, 98, 57, 51, 52, 99,
       97, 52, 57, 53, 57, 57, 49, 98, 55, 56, 53, 50, 98, 56, 53, 53 >>
\* "ba7816bf8f01cfea414140de5dae2223b00361a396177a9cb410ff61f20015ad"
Sha256OfAbc ==
    << 98, 97, 55, 56, 49, 54, 98, 102, 56, 102, 48, 49, 99, 102, 101, 97,
       52, 49, 52, 49, 52, 48, 100, 101, 53, 100, 97, 101, 50, 50, 50, 51,
       98, 48, 48, 51, 54, 49, 97, 51, 57, 54, 49, 55, 55, 97, 57, 99,
       98, 52, 49, 48, 102, 102, 54, 49, 102, 50, 48, 48, 49, 53, 97, 100 >>
\* "c49fea7425fa7f8699897a97c159c6690267d9003bb78c53fafa8fc15c325d84"
Sha256OfLegacy ==
    << 99, 52, 57, 102, 101, 97, 55, 52, 50, 53, 102, 97, 55, 102, 56, 54,
       57, 57, 56, 57, 55, 97, 57, 55, 99, 49, 53, 57, 99, 54, 54, 57,
       48, 50, 54, 55, 100, 57, 48, 48, 51, 98, 98, 55, 56, 99, 53, 51,
       102, 97, 102, 97, 56, 102, 99, 49, 53, 99, 51, 50, 53, 100, 56, 52 >>

ShaReturned == lastOp = "calculateSha256" /\ ret.kind = "string"

\* The bytes a payload denotes, read off the payload without the code's
\* conversion.
PayloadBytesOf(payload) ==
    IF payload.kind = "string" THEN Utf8Encode(payload.text)
    ELSE [k \in 1..(IF payload.kind = "ArrayBuffer" THEN Len(payload.bytes)
                    ELSE payload.length) |->
             payload.bytes[(IF payload.kind = "ArrayBuffer" THEN 0
                            ELSE payload.byteOffset) + k]]

\* C14: calculateSha256 of an input without bytes (the empty string, an
\* empty view) returns e3b0c442...7852b855, and of the bytes "abc" (as a
\* string, an ArrayBuffer or a DataView) ba7816bf...f20015ad.
C14_KnownAnswers ==
    /\ lastOp = "calculateSha256" => ret.kind = "string"
    /\ ShaReturned =>
         /\ (PayloadBytesOf(input) = <<>> => ret.value = Sha256OfEmpty)
         /\ (PayloadBytesOf(input) = <<97, 98, 99>> => ret.value = Sha256OfAbc)

\* calculateSha256("abc") returned the FIPS 180-4 digest of "abc".
C14_Witness ==
    /\ ShaReturned
    /\ input = [kind |-> "string", text |-> <<97, 98, 99>>]
    /\ ret.value = Sha256OfAbc

\* C15: the string a calculateSha256 call returned is what calculateSha256
\* gives for every payload with the same bytes, whatever its kind, and for
\* 'legacy' it is c49fea74...5c325d84.
C15_DeterministicAndLegacy ==
    ShaReturned =>
      /\ \A p \in ShaPayloads :
            PayloadBytesOf(p) = PayloadBytesOf(input)
            => calculateSha256(p) = ret.value
      /\ (input = [kind |-> "string", text |-> <<108, 101, 103, 97, 99, 121>>]
          => ret.value = Sha256OfLegacy)

\* calculateSha256('legacy') returned the digest the test expects.
C15_Witness ==
    /\ ShaReturned
    /\ input = [kind |-> "string", text |-> <<108, 101, 103, 97, 99, 121>>]
    /\ ret.value = Sha256OfLegacy

\* The number a string of lowercase hex digits writes, most significant
\* digit first.
HexDigitValue(c) == IF c \in 48..57 THEN c - 48 ELSE c - 87
RECURSIVE HexValue(_)
HexValue(str) ==
    IF str = <<>> THEN 0
    ELSE HexValue(SubSeq(str, 1, Len(str) - 1)) * 16 + HexDigitValue(str[Len(str)])

\* C16: the string calculateSha256 returns has exactly 64 characters, each
\* in 0-9a-f, and its j-th group of 8 characters is the j-th final hash
\* word written most significant digit first.
C16_HexOfStateWords ==
    ShaReturned =>
      /\ Len(ret.value) = 64
      /\ \A k \in 1..Len(ret.value) : ret.value[k] \in (48..57) \cup (97..102)
      /\ LET hash == FinalHash(PayloadBytesOf(input))
         IN \A j \in 1..8 :
               /\ HexValue(SubSeq(ret.value, 8 * (j - 1) + 1, 8 * (j - 1) + 4))
                  = hash[j][1]
               /\ HexValue(SubSeq(ret.value, 8 * (j - 1) + 5, 8 * j)) = hash[j][2]

\* The digest of "abc", whose sixth byte is 0x01, came back with that byte
\* written "01".
C16_Witness ==
    /\ ShaReturned
    /\ PayloadBytesOf(input) = <<97, 98, 99>>
    /\ Len(ret.value) = 64
    /\ SubSeq(ret.value, 11, 12) = <<48, 49>>
    /\ FinalHash(<<97, 98, 99>>)[2][1] % 256 = 1

\* The number the last 8 bytes of a buffer hold, big endian (the first four
\* are to be 0 here).
BigEndian(bytes) ==
    ((bytes[1] * 256 + bytes[2]) * 256 + bytes[3]) * 256 + bytes[4]

\* C20: the buffer sha256 pads an input of L bytes to has a length that is
\* the smallest multiple of 64 that is at least L + 9; it starts with the
\* input, holds 0x80 at L, zeros up to its last 8 bytes, and 8 * L as a
\* big-endian 64-bit integer in those; L = 55 pads to 64 bytes, L = 56 and
\* L = 64 to 128.
C20_Padding ==
    ShaReturned =>
      LET bytes == PayloadBytesOf(input)
          L == Len(bytes)
          padded == PadBuffer(bytes)
          n == Len(padded)
      IN /\ n % 64 = 0
         /\ n >= L + 9
         /\ n - 64 < L + 9
         /\ SubSeq(padded, 1, L) = bytes
         /\ padded[L + 1] = 128
         /\ \A k \in (L + 2)..(n - 8) : padded[k] = 0
         /\ SubSeq(padded, n - 7, n - 4) = <<0, 0, 0, 0>>
         /\ BigEndian(SubSeq(padded, n - 3, n)) = 8 * L
         /\ (L = 55 => n = 64)
         /\ (L \in {56, 64} => n = 128)
         /\ Len(ret.value) = 64

\* An input of 56 bytes was hashed: its padding takes a second block, and
\* the bit length 448 is in the last two bytes.
C20_Witness ==
    /\ ShaReturned
    /\ Len(PayloadBytesOf(input)) = 56
    /\ Len(PadBuffer(PayloadBytesOf(input))) = 128
    /\ SubSeq(PadBuffer(PayloadBytesOf(input)), 127, 128) = <<1, 192>>

\* ------------------------------------------------------------------------
DosReturned == lastOp \in {"toDosTime", "toDosDateTime"} /\ ret.kind = "dos"

\* The year a dosDate holds: its top 7 bits, counted from 1980.
EncodedYear(dosDate) == 1980 + (dosDate \div 512)

\* C17: whichever encoder is called, on whatever date, it returns, and the
\* year in the dosDate it returns is the UTC year clamped into 1980..2107: a
\* date in 1975 encodes 1980 (year field 0), one in 2200 encodes 2107 (year
\* field 127).
C17_YearClamped ==
    /\ lastOp \in {"toDosTime", "toDosDateTime"} => ret.kind = "dos"
    /\ DosReturned =>
         /\ ret.date \in 0..65535
         /\ EncodedYear(ret.date)
            = (IF now.year < 1980 THEN 1980
               ELSE IF now.year > 2107 THEN 2107 ELSE now.year)
         /\ (now.year = 1975 => ret.date \div 512 = 0)
         /\ (now.year = 2200 => ret.date \div 512 = 127)

\* The last day of 2200 was encoded: year field 127, month 12, day 31.
C17_Witness ==
    /\ DosReturned
    /\ now.year = 2200
    /\ now.month = 11
    /\ now.day = 31
    /\ ret.date = (127 * 512) + (12 * 32) + 31
\* ------------------------------------------------------------------------
\* What each payload of AccessPayloads is as a JSON text, read off the
\* grammar by hand: the value, or "invalid".
Invalid == [type |-> "invalid"]
JsonReading(payload) ==
    CASE payload = <<123, 34, 97, 34, 58, 49, 125>> ->
            [type |-> "object",
             members |-> << [key |-> <<97>>,
                             value |-> [type |-> "number", literal |-> <<49>>]] >>]
      [] payload = <<91, 93>> -> [type |-> "array", items |-> <<>>]
      [] payload = <<239, 187, 191, 91, 93>> -> [type |-> "array", items |-> <<>>]
      [] payload = <<110, 117, 108, 108>> -> [type |-> "null"]
      [] payload = <<32, 34, 195, 169, 34, 10>> -> [type |-> "string", value |-> <<233>>]
      [] OTHER -> Invalid

Asked == origin.name
Present == Asked \in DOMAIN input

\* C18: readZipText gives null exactly when the name is not in the map and
\* the decoded text otherwise, the empty string for an empty payload;
\* readZipJson gives null for a missing name, the parsed value for a valid
\* JSON text, and throws an error naming the entry, never null, for a
\* present entry that is not valid JSON.
C18_Accessors ==
    /\ lastOp = "readZipText" =>
         /\ (ret = Null) <=> ~Present
         /\ Present => ret = [kind |-> "string", value |-> Utf8Decode(input[Asked])]
         /\ (Present /\ input[Asked] = <<>>) => ret = [kind |-> "string", value |-> <<>>]
    /\ lastOp = "readZipJson" =>
         /\ ~Present => ret = Null
         /\ (Present /\ JsonReading(input[Asked]) = Invalid)
               => ret = [kind |-> "error", error |-> "Failed to parse JSON",
                         name |-> Asked]
         /\ (Present /\ JsonReading(input[Asked]) \notin {Invalid, [type |-> "null"]})
               => ret = [kind |-> "json", value |-> JsonReading(input[Asked])]
         /\ (Present /\ JsonReading(input[Asked]) = [type |-> "null"]) => ret = Null

C18_Witness ==
    /\ lastOp = "readZipJson" /\ Asked = "metadata.json" /\ Present
    /\ "trace.json" \in DOMAIN input
    /\ input["metadata.json"] = <<123>>
    /\ ret.kind = "error"

\* ------------------------------------------------------------------------
ParsedTrailing == lastOp = "parseStoredZip" /\ origin.kind = "trailing"

\* The name of a trailer's entry as the reader would decode it.
TrailerName == <<122, 122>>

\* C19: the scan ends at a central-directory or end-of-central-directory
\* signature: a local header behind it, sound or not, is neither added to
\* the map nor the cause of an error, and the map holds the entries in
\* front of the signature only.
C19_StopsAtDirectory ==
    ParsedTrailing =>
        /\ ret.kind = "map"
        /\ TrailerName \notin DOMAIN ret.entries
        /\ DOMAIN ret.entries
           = {Utf8Decode(Utf8Encode(entries[i].name)) : i \in 1..Len(entries)}

C19_Witness ==
    /\ ParsedTrailing
    /\ origin.trailer = "compressed"
    /\ origin.stop = "end"
    /\ Len(entries) = 2
    /\ ret.kind = "map"
    /\ DOMAIN ret.entries = {<<97>>, <<233>>}
    /\ ret.entries[<<97>>] = <<80, 75, 5, 6>>

\* ------------------------------------------------------------------------
ClampedYear == IF now.year < 1980 THEN 1980
               ELSE IF now.year > 2107 THEN 2107 ELSE now.year

\* C21: the two values an encoder returns are
\* (clampedYear - 1980) * 2^9 + month * 2^5 + day and
\* hour * 2^11 + minute * 2^5 + floor(second / 2), the components being the
\* UTC ones whatever the host's time zone; both lie in 0..65535 and each
\* component is read back from its own bits.
C21_DosLayout ==
    DosReturned =>
        /\ ret.date = (ClampedYear - 1980) * 512 + (now.month + 1) * 32 + now.day
        /\ ret.time = now.hours * 2048 + now.minutes * 32 + (now.seconds \div 2)
        /\ ret.date \in 0..65535
        /\ ret.time \in 0..65535
        /\ ret.date \div 512 = ClampedYear - 1980
        /\ (ret.date \div 32) % 16 = now.month + 1
        /\ ret.date % 32 = now.day
        /\ ret.time \div 2048 = now.hours
        /\ (ret.time \div 32) % 64 = now.minutes
        /\ ret.time % 32 = now.seconds \div 2

\* 15 June 2024, 12:30:31 UTC, encoded on a host three hours ahead of UTC.
C21_Witness ==
    /\ DosReturned
    /\ now.year = 2024 /\ now.month = 5 /\ now.day = 15 /\ now.zone = 3
    /\ now.hours = 12 /\ now.minutes = 30 /\ now.seconds = 31
    /\ ret.date = (44 * 512) + (6 * 32) + 15
    /\ ret.time = (12 * 2048) + (30 * 32) + 15

\* ------------------------------------------------------------------------
Signatures ==
    { ZIP_LOCAL_FILE_HEADER_SIGNATURE, ZIP_CENTRAL_DIR_SIGNATURE,
      ZIP_END_CENTRAL_DIR_SIGNATURE }

\* Whether the four bytes at a 0-based offset are one of the signatures.
SignatureAt(bytes, at) ==
    at + 4 <= Len(bytes) /\ GetUint32(bytes, at) \in Signatures

HoldsSignature(bytes) == \E at \in 0..Len(bytes) : SignatureAt(bytes, at)

ParsingPadded == lastOp = "parseStoredZip" /\ origin.kind = "padded"

\* C22, the step: an iteration that finds four bytes at the scan offset and
\* none of the three signatures in them moves the offset by one and leaves
\* the map alone.
C22_SkipsOneByte ==
    (/\ ParsingPadded /\ ret.kind = "scanning"
     /\ ret.offset + 4 <= Len(input)
     /\ ~SignatureAt(input, ret.offset))
    => /\ ret'.kind = "scanning"
       /\ ret'.offset = ret.offset + 1
       /\ ret'.entries = ret.entries

\* C22: an iteration at bytes that are no signature moves on by exactly one
\* byte, and an archive with padding that holds no signature in front of
\* its first local header or between two local segments parses to the map
\* of the archive without the padding.
C22_PaddingTolerated ==
    /\ [][C22_SkipsOneByte]_vars
    /\ [](ParsingPadded => /\ ~HoldsSignature(origin.pad)
                           /\ ret.kind \in {"scanning", "map"}
                           /\ ret.kind = "map" => ret = parseStoredZip(origin.archive))

\* Five bytes between the two local segments of an archive were skipped and
\* both entries came back.
C22_Witness ==
    /\ ParsingPadded
    /\ Len(origin.pad) = 5
    /\ origin.at > 0
    /\ ret.kind = "map"
    /\ DOMAIN ret.entries = {<<97>>, <<233>>}

\* ------------------------------------------------------------------------
ParsedChecked == lastOp = "parseStoredZip" /\ origin.kind = "checked"

\* What is wrong with the crafted entry, read off the fields the caller
\* wrote: three bytes follow its header, two of them its name.
MethodFails == origin.header.method # 0
ReachesPastEnd == origin.header.compressedSize[2] > 1
SizeFails == origin.header.uncompressedSize # origin.header.compressedSize
CrcFails == origin.header.crc # <<59575, 48707>>

\* C23: the error of a local entry is that of the first check it fails, in
\* the order compression method, (end of data inside the buffer,) payload
\* length against the uncompressed size, CRC; the entry is in the result
\* only when it fails none, and a failing entry leaves no result at all.
C23_ValidationOrder ==
    ParsedChecked =>
        /\ MethodFails => ret = Failure("UnsupportedCompression", <<>>)
        /\ (~MethodFails /\ ReachesPastEnd) => ret = Failure("Truncated", <<>>)
        /\ (~MethodFails /\ ~ReachesPastEnd /\ SizeFails)
              => ret = Failure("SizeMismatch", TrailerName)
        /\ (~MethodFails /\ ~ReachesPastEnd /\ ~SizeFails /\ CrcFails)
              => ret = Failure("CrcMismatch", TrailerName)
        /\ (MethodFails \/ ReachesPastEnd \/ SizeFails \/ CrcFails) <=> ret.kind = "error"
        /\ ret.kind = "map" => /\ TrailerName \in DOMAIN ret.entries
                               /\ ret.entries[TrailerName] = <<97>>

\* An entry with a wrong size and a wrong CRC, behind a sound one, was
\* reported for its size.
C23_Witness ==
    /\ ParsedChecked
    /\ Len(entries) = 1
    /\ ~MethodFails /\ ~ReachesPastEnd /\ SizeFails /\ CrcFails
    /\ ret = Failure("SizeMismatch", TrailerName)

\* ------------------------------------------------------------------------
ScanRunning == lastOp = "parseStoredZip" /\ ret.kind = "scanning"
ScanEnded == lastOp = "parseStoredZip" /\ ret.kind \in {"map", "error"}

\* An iteration ends the call, or moves the offset on by one byte or by a
\* whole local entry of at least 30 bytes.
C24_IterationAdvances ==
    ScanRunning =>
        \/ ret'.kind \in {"map", "error"}
        \/ /\ ret'.kind = "scanning"
           /\ \/ ret'.offset = ret.offset + 1
              \/ ret'.offset >= ret.offset + 30

\* C24: every iteration of the scan loop ends the call or strictly
\* increases the offset, by 1 or by at least 30; the offset never passes the
\* end of the buffer; and every call that starts ends, with the map or
\* with an error.
C24_ReaderTerminates ==
    /\ [][C24_IterationAdvances]_vars
    /\ [](ScanRunning => ret.offset \in 0..Len(input))
    /\ (ScanRunning ~> ScanEnded)

\* A buffer of an entry, a stray byte and another entry was read to its end
\* in three iterations and a last test of the loop condition.
C24_Witness ==
    /\ ScanEnded
    /\ Len(input) = 67
    /\ input[34] = 80
    /\ ret.kind = "map"
    /\ DOMAIN ret.entries = {<<97>>}

\* ------------------------------------------------------------------------
HeaderWritten == ret.kind = "header"
IsLocalHeader == lastOp \in {"writeLocalFileHeader", "buildLocalSegments"}

\* Where a header keeps its name-length field and where its name starts.
NameLengthAt == IF IsLocalHeader THEN 26 ELSE 28
NameAt == IF IsLocalHeader THEN 30 ELSE 46

\* C25: a header writer given a name of any length returns a header: it
\* holds every byte of the name behind its fixed part, and its 16-bit
\* name-length field holds the length modulo 2^16, so that for a name
\* longer than 65535 bytes the field differs from the number of name bytes
\* that follow.
C25_NameLengthWraps ==
    /\ lastOp # "new" => HeaderWritten
    /\ HeaderWritten =>
         /\ Len(ret.fixed) = NameAt
         /\ ret.length = NameAt + input.length
         /\ ret.rest = [length |-> input.length, bytes |-> {input.char}]
         /\ GetUint16(ret.fixed, NameLengthAt) = input.length % 65536
         /\ input.length > 65535
               => GetUint16(ret.fixed, NameLengthAt) # ret.rest.length

\* A local header of the file/generateAsync half for a name of 65537 bytes
\* declares a name of one byte.
C25_Witness ==
    /\ HeaderWritten
    /\ lastOp = "buildLocalSegments"
    /\ input.length = 65537
    /\ ret.length = 65567
    /\ ret.rest.length = 65537
    /\ GetUint16(ret.fixed, 26) = 1

\* ------------------------------------------------------------------------
WaitStarted == wait.pc # "idle"
PollSent == WaitStarted /\ wait'.pc = "polling" /\ wait.pc # "polling"

\* The seconds a --timeout option asks for, read by hand; -1 for no number.
SecondsAsked ==
    IF wait.option = "0" THEN 0
    ELSE IF wait.option = "1" THEN 1
    ELSE IF wait.option = "4" THEN 4
    ELSE -1
HasDeadline == SecondsAsked >= 0
DeadlineAt == wait.start + SecondsAsked * 1000

\* A poll is sent only before the deadline, and at least two seconds after
\* the one before; the count of polls grows by one with each.
C26_PollsBeforeDeadline ==
    /\ PollSent =>
         /\ HasDeadline
         /\ clock' < DeadlineAt
         /\ wait'.polledAt = clock'
         /\ wait'.polls = wait.polls + 1
         /\ wait.polls > 0 => clock' >= wait.polledAt + 2000
    /\ (WaitStarted /\ ~PollSent) => wait'.polls = wait.polls

\* When the loop is reached again the time decides: a poll before the
\* deadline, the timeout error at or after it.
C26_DeadlineDecides ==
    (WaitStarted /\ wait.pc \in {"connecting", "sleeping"} /\ wait'.pc # wait.pc)
    => IF HasDeadline /\ clock < DeadlineAt
       THEN wait'.pc = "polling"
       ELSE wait'.pc = "failed" /\ wait'.error = Timeout

ScannedWritten == lastOp = "parseStoredZip" /\ origin.kind \in {"archive", "longName"}

\* What the writer was given for the archive being read: how many entries,
\* and the byte lengths of their names and payloads.
WrittenCount == IF origin.kind = "longName" THEN 1 ELSE Len(added)
WrittenNameLength(i) ==
    IF origin.kind = "longName" THEN input.length ELSE Utf8Length(StoredName(i))
WrittenPayloadLength(i) ==
    IF origin.kind = "longName" THEN 0 ELSE Len(added[i].payload)

\* Where the i-th local header starts, and with i past the last entry where
\* the directory (or, without entries, the end record) starts.
RECURSIVE SegmentStart(_)
SegmentStart(i) ==
    IF i <= 1 THEN 0
    ELSE SegmentStart(i - 1) + 30 + WrittenNameLength(i - 1)
         + WrittenPayloadLength(i - 1)

DirectoryStart == SegmentStart(WrittenCount + 1)
OnSegmentStart == \E i \in 1..(WrittenCount + 1) : ret.offset = SegmentStart(i)
NamesFit == \A i \in 1..WrittenCount : WrittenNameLength(i) <= 65535

\* The payload last added under a name.
LastAdded(name) ==
    added[CHOOSE i \in 1..Len(added) :
             /\ StoredName(i) = name
             /\ \A j \in (i + 1)..Len(added) : StoredName(j) # name].payload

C27_IterationOnHeaders ==
    (ScannedWritten /\ NamesFit /\ ret.kind = "scanning" /\ ret' # ret)
    => /\ ret'.kind = "scanning"
          => /\ ret.offset < DirectoryStart
             /\ ret'.offset >= ret.offset + 30
             /\ \E i \in 1..WrittenCount :
                   /\ ret.offset = SegmentStart(i)
                   /\ ret'.offset = SegmentStart(i + 1)
                   /\ ret'.entries[StoredName(i)]
                      = Slice(input, ret'.offset - WrittenPayloadLength(i), ret'.offset)
       /\ ret'.kind = "map"
          => /\ ret.offset = DirectoryStart
             /\ ret'.entries = ret.entries
       /\ ret'.kind = "error"
          => /\ writes > 0
             /\ ret'.error = "CrcMismatch"

ReadName(i) == Utf8Decode(Utf8Encode(StoredName(i)))
ReadNames == {ReadName(i) : i \in 1..Len(entries)}
LastNamed(name) ==
    CHOOSE i \in 1..Len(entries) :
        /\ ReadName(i) = name
        /\ \A j \in (i + 1)..Len(entries) : ReadName(j) # name

\* C28: parseStoredZip of an archive returns a map with one key for every
\* distinct name among its local entries, as many keys as distinct names,
\* and under each the payload of the last entry of that name.
C28_LastEntryWins ==
    ParsedArchive
    => /\ ret.kind = "map"
       /\ DOMAIN ret.entries = ReadNames
       /\ Cardinality(DOMAIN ret.entries) = Cardinality(ReadNames)
       /\ \A name \in ReadNames : ret.entries[name] = added[LastNamed(name)].payload

\* An archive of two entries "a", the first of one byte and the second
\* empty, came back as a map of one key with the empty payload.
C28_Witness ==
    /\ ParsedArchive
    /\ Len(added) = 2
    /\ StoredName(1) = <<97>>
    /\ StoredName(2) = <<97>>
    /\ added[1].payload = <<0>>
    /\ added[2].payload = <<>>
    /\ ret.kind = "map"
    /\ ret.entries = (<<97>> :> <<>>)
\* ------------------------------------------------------------------------
\* The errors parseStoredZip throws itself (lines 397, 411, 418, 423).
OwnErrors == {"UnsupportedCompression", "Truncated", "SizeMismatch", "CrcMismatch"}

\* The iteration is at a local-header signature that fewer than 26 bytes
\* follow.
AtCutHeader ==
    /\ ScanRunning
    /\ ret.offset + 4 <= Len(input)
    /\ GetUint32(input, ret.offset) = ZIP_LOCAL_FILE_HEADER_SIGNATURE
    /\ Len(input) < ret.offset + 30

\* C29, as claimed: a call of parseStoredZip on a buffer ends with a map or
\* with one of its four own errors, and an iteration at a local-header
\* signature that fewer than 26 bytes follow ends it with the truncated-data
\* error.
C29_BoundedReads ==
    /\ [](ScanEnded => \/ ret.kind = "map"
                       \/ ret.kind = "error" /\ ret.error \in OwnErrors)
    /\ [][AtCutHeader => ret' = Failure("Truncated", <<>>)]_vars
\* ------------------------------------------------------------------------
MailOps ==
    {"listFolders", "getMessage", "submitMessage", "compose", "deleteMessage",
     "moveMessage", "archiveMessage"}

\* The stored messages of a folder that are not read.
Unread(f) ==
    {k \in 1..Len(messageState) :
        messageState[k].folder = f /\ messageState[k].status # "read"}
StoredIds == {messageState[k].id : k \in 1..Len(messageState)}

\* The call just made was one of these operations on an id no message had.
UnknownId(ops) == lastOp' \in ops /\ origin'.id \notin StoredIds

\* C30: on an inline transport every folder's unreadCount, kept and as
\* listFolders reports it, is the number of stored messages of that folder
\* whose status is not 'read'; getMessage, moveMessage and archiveMessage on
\* an unknown id raise and leave the stored messages as they are, and
\* deleteMessage on an unknown id changes nothing and resolves.
C30_UnreadCounts ==
    /\ [](lastOp \in MailOps
          => /\ \A k \in 1..Len(folderState) :
                   folderState[k].unreadCount = Cardinality(Unread(folderState[k].id))
             /\ lastOp = "listFolders"
                => /\ ret.folders = folderState
                   /\ {ret.folders[k].id : k \in 1..Len(ret.folders)} = folderIdSchema)
    /\ [][UnknownId({"getMessage", "moveMessage", "archiveMessage"})
           => /\ ret' = NotFound(origin'.id)
              /\ UNCHANGED mailVars]_vars
    /\ [][UnknownId({"deleteMessage"})
           => /\ ret' = Resolved
              /\ UNCHANGED mailVars]_vars

\* The inbox holds the welcome message, a composed one and a submitted one
\* that is read, and listFolders reports two unread there.
C30_Witness ==
    /\ lastOp = "listFolders"
    /\ Len(messageState) = 3
    /\ \A k \in 1..3 : messageState[k].folder = "inbox"
    /\ \E k \in 1..3 : messageState[k].status = "read"
    /\ ret.folders[1] = [id |-> "inbox", unreadCount |-> 2]

====
